---- MODULE Spec2Model ----
(***************************************************************************)
(* Verification model of the claude-historian search engine: the term      *)
(* matcher and relevance scorer (utils), the re-ranker, the deduplication  *)
(* and the cached, concurrent candidate gatherer (HistorySearchEngine),    *)
(* the query similarity and the parser's ingestion loop with its content   *)
(* preservation (ConversationParser), and UniversalHistorySearchEngine:    *)
(* its entry points and its combined search on a machine with or without   *)
(* a Claude Desktop installation.                                          *)
(*                                                                         *)
(* Text is modelled by TLA+ strings, read character by character with      *)
(* SubSeq; scores are exact rationals <<numerator, denominator>>.          *)
(***************************************************************************)
EXTENDS Integers, Sequences, FiniteSets, TLC

VARIABLES
  call,     \* the function applied in this behaviour: its arguments, its frame
            \* (for universalSearch, the Desktop installation found) and result
  corpus,   \* the JSONL files on disk: partition -> file -> sequence of lines
  disk,     \* which reads of the corpus currently fail
  cache,    \* HistorySearchEngine.messageCache, in Map insertion order
  sessions, \* ConversationParser.sessions, in Map insertion order
  req,      \* the search request in flight (its tasks and their positions)
  resp,     \* what the last finished entry point returned to its caller
  hist      \* what has happened since the engine was constructed (for the properties)

vars == <<call, corpus, disk, cache, sessions, req, resp, hist>>

-----------------------------------------------------------------------------
(* Strings                                                                 *)
(*                                                                         *)
(* An operator that reads an argument more than once first binds it to a  *)
(* variable, through a one-element set, so that it is evaluated once:     *)
(*   CHOOSE out \in {body(v) : v \in {argument}} : TRUE                    *)

Char(s, i) == SubSeq(s, i, i)

CharsOf(s) == {Char(s, i) : i \in 1..Len(s)}

LowerAlpha == "abcdefghijklmnopqrstuvwxyz"

UpperAlpha == "ABCDEFGHIJKLMNOPQRSTUVWXYZ"

Digits == "0123456789"

AlphaIndex(alpha, c) == CHOOSE i \in 1..Len(alpha) : Char(alpha, i) = c

LowerChars == CharsOf(LowerAlpha)

UpperChars == CharsOf(UpperAlpha)

IsUpperChar(c) == c \in UpperChars

IsLowerChar(c) == c \in LowerChars

toLowerChar(c) == IF IsUpperChar(c) THEN Char(LowerAlpha, AlphaIndex(UpperAlpha, c)) ELSE c

toUpperChar(c) == IF IsLowerChar(c) THEN Char(UpperAlpha, AlphaIndex(LowerAlpha, c)) ELSE c

\* the concatenation of a sequence of strings
concat(parts) ==
  LET cat(p) ==
        LET C[r \in (1..Len(p)) \X (1..Len(p))] ==
              IF r[1] = r[2] THEN p[r[1]]
              ELSE C[<<r[1], (r[1] + r[2]) \div 2>>] \o C[<<(r[1] + r[2]) \div 2 + 1, r[2]>>]
        IN IF Len(p) = 0 THEN "" ELSE C[<<1, Len(p)>>]
  IN CHOOSE out \in {cat(p) : p \in {parts}} : TRUE

\* the members of a finite set of integers, smallest first
ascending(set) ==
  CHOOSE out \in
    {[k \in 1..Cardinality(v) |-> CHOOSE x \in v : Cardinality({y \in v : y < x}) = k - 1] :
       v \in {set}} : TRUE

\* String.prototype.toLowerCase on ASCII text
toLowerCase(s) ==
  CHOOSE out \in {concat([i \in 1..Len(v) |-> toLowerChar(Char(v, i))]) : v \in {s}} : TRUE

\* String.prototype.toUpperCase on ASCII text
toUpperCase(s) ==
  CHOOSE out \in {concat([i \in 1..Len(v) |-> toUpperChar(Char(v, i))]) : v \in {s}} : TRUE

\* String.prototype.includes
includes(s, sub) ==
  \E v \in {s}, w \in {sub} :
    \/ w = ""
    \/ \E i \in 1..(Len(v) - Len(w) + 1) : SubSeq(v, i, i + Len(w) - 1) = w

\* String.prototype.substring on 1-based inclusive positions, clipped to s
slice(s, i, j) ==
  CHOOSE out \in
    {IF a > (IF b < Len(v) THEN b ELSE Len(v)) THEN ""
     ELSE SubSeq(v, a, IF b < Len(v) THEN b ELSE Len(v)) : v \in {s}, a \in {i}, b \in {j}} : TRUE

\* \s of a JavaScript regular expression (the ASCII members)
Whitespace == {" ", "\t", "\n", "\r"}

\* the character class of matchesTechTerm's split: [\s.,;:!?()\[\]{}'"<>]
TechDelims ==
  Whitespace \cup {".", ",", ";", ":", "!", "?", "(", ")", "[", "]", "{", "}", "'", "\"", "<", ">"}

\* [\w-] : letters, digits, underscore and the hyphen
WordOrHyphen == CharsOf(LowerAlpha) \cup CharsOf(UpperAlpha) \cup CharsOf(Digits) \cup {"_", "-"}

\* String.prototype.split(/[delims]+/): the pieces between maximal runs of
\* delimiters, an empty piece at either end when the text starts or ends
\* with a delimiter
split(s, delims) ==
  LET pieces(v, d) ==
        LET isDelim(i) == Char(v, i) \in d
            spans(starts, ends) == [k \in 1..Len(starts) |-> SubSeq(v, starts[k], ends[k])]
        IN (IF isDelim(1) THEN <<"">> ELSE <<>>)
             \o (CHOOSE out \in
                   {spans(starts, ends) :
                      starts \in {ascending({i \in 1..Len(v) :
                                               ~isDelim(i) /\ (i = 1 \/ isDelim(i - 1))})},
                      ends \in {ascending({i \in 1..Len(v) :
                                             ~isDelim(i) /\ (i = Len(v) \/ isDelim(i + 1))})}} :
                   TRUE)
             \o (IF isDelim(Len(v)) THEN <<"">> ELSE <<>>)
  IN CHOOSE out \in {IF Len(v) = 0 THEN <<"">> ELSE pieces(v, d) : v \in {s}, d \in {delims}} :
       TRUE

\* word.replace(/[^\w-]/g, '')
stripNonWord(w) ==
  CHOOSE out \in
    {concat([i \in 1..Len(v) |-> IF Char(v, i) \in WordOrHyphen THEN Char(v, i) ELSE ""]) :
       v \in {w}} : TRUE

-----------------------------------------------------------------------------
(* utils: matchesTechTerm                                                  *)

isNormalCase(cleanWord) ==
  \E w \in {cleanWord} :
    \/ w = toLowerCase(w)
    \/ w = toUpperCase(w)
    \/ w = toUpperChar(Char(w, 1)) \o toLowerCase(SubSeq(w, 2, Len(w)))

matchesTechTerm_firstHitDecides(content, term) ==
  \E raw \in {split(content, TechDelims)}, termLower \in {toLowerCase(term)} :
  \E words \in {[i \in 1..Len(raw) |-> stripNonWord(raw[i])]} :
    \E hits \in {{i \in 1..Len(words) : words[i] # "" /\ toLowerCase(words[i]) = termLower}} :
      /\ hits # {}
      /\ isNormalCase(words[CHOOSE i \in hits : \A j \in hits : i <= j])

\* the loop over the words: the first word that equals the term without
\* regard to case and is in a normal casing decides; any other is skipped
matchesTechTerm(content, term) ==
  \E words \in {split(content, TechDelims)}, termLower \in {toLowerCase(term)} :
    LET scan[i \in 1..Len(words) + 1] ==
          IF i > Len(words) THEN FALSE
          ELSE \E cleanWord \in {stripNonWord(words[i])} :
                 IF cleanWord = "" THEN scan[i + 1]
                 ELSE IF toLowerCase(cleanWord) = termLower /\ isNormalCase(cleanWord)
                      THEN TRUE
                      ELSE scan[i + 1]
    IN scan[1]

-----------------------------------------------------------------------------
(* utils: extractContentFromMessage and calculateRelevanceScore            *)

\* String.prototype.trim
trim(s) ==
  LET cut(v, leading, trailing) ==
        IF leading = {} THEN ""
        ELSE SubSeq(v, CHOOSE i \in leading : \A j \in leading : i <= j,
                       Len(v) - (CHOOSE i \in trailing : \A j \in trailing : i <= j))
      \* the characters kept, counted from the start and from the end
      trimmed(v) ==
        CHOOSE out \in
          {cut(v, leading, trailing) :
             leading \in {{i \in 1..Len(v) : Char(v, i) \notin Whitespace}},
             trailing \in {{k \in 0..(Len(v) - 1) : Char(v, Len(v) - k) \notin Whitespace}}} :
            TRUE
  IN CHOOSE out \in {trimmed(v) : v \in {s}} : TRUE

\* Array.prototype.join
join(parts, sep) ==
  CHOOSE out \in
    {concat([i \in 1..Len(p) |-> IF i = 1 THEN p[1] ELSE sep \o p[i]]) : p \in {parts}} : TRUE

\* message.content is a string, an array of items, or neither
StringContent(text) == [kind |-> "string", text |-> text, items |-> <<>>]

ArrayContent(items) == [kind |-> "array", text |-> "", items |-> items]

NoContent == [kind |-> "none", text |-> "", items |-> <<>>]

TextItem(text) == [type |-> "text", text |-> text, name |-> ""]

ToolUseItem(name) == [type |-> "tool_use", text |-> "", name |-> name]

ToolResultItem == [type |-> "tool_result", text |-> "", name |-> ""]

extractContentFromMessage(message) ==
  LET shown(item) ==
        IF item.type = "text" THEN item.text
        ELSE IF item.type = "tool_use" THEN "[Tool: " \o item.name \o "]"
        ELSE IF item.type = "tool_result" THEN "[Tool Result]"
        ELSE ""
  IN CHOOSE out \in
       {IF m.kind = "string" THEN m.text
        ELSE IF m.kind = "array"
             THEN trim(join([i \in 1..Len(m.items) |-> shown(m.items[i])], " "))
             ELSE "" : m \in {message}} : TRUE

\* /^(webpack|docker|...|indexeddb)$/i, tested on lower-cased query words
coreTechPatterns ==
  {"webpack", "docker", "react", "vue", "angular", "node", "npm", "yarn", "typescript",
   "python", "rust", "go", "java", "kubernetes", "aws", "gcp", "azure", "postgres",
   "mysql", "redis", "mongodb", "graphql", "rest", "grpc", "oauth", "jwt", "git",
   "github", "gitlab", "jenkins", "nginx", "apache", "eslint", "prettier", "babel",
   "vite", "rollup", "esbuild", "jest", "mocha", "cypress", "playwright", "nextjs",
   "nuxt", "svelte", "tailwind", "sass", "less", "vitest", "pnpm", "turborepo", "prisma",
   "drizzle", "sequelize", "sqlite", "leveldb", "indexeddb"}

\* the words that never become supporting terms
genericTerms ==
  {"config", "configuration", "setup", "install", "build", "deploy", "test", "run",
   "start", "create", "update", "fix", "add", "remove", "change", "optimize",
   "optimization", "improve", "use", "using", "with", "for", "the", "and", "make",
   "write", "read", "delete", "check", "testing", "tests", "mocks", "mocking", "mock",
   "stubs", "stubbing", "specs", "coverage", "design", "designs", "designing",
   "responsive", "architecture", "pattern", "patterns", "caching", "cache", "rendering",
   "render", "bundle", "bundling", "performance", "strategy", "strategies", "approach",
   "implementation", "solution", "solutions", "feature", "features", "system", "systems",
   "process", "processing", "handler", "handling", "manager", "management", "files",
   "file", "folder", "directory", "path", "code", "data", "error", "errors", "function",
   "functions", "class", "classes", "method", "methods", "variable", "variables",
   "component", "components", "module", "modules", "package", "packages", "library",
   "libraries", "format", "formatting", "style", "styles", "layout", "display", "show",
   "hide", "visible", "rules", "rule", "options", "option", "settings", "setting",
   "params", "parameters", "server", "client", "request", "response", "async", "await",
   "promise", "callback", "import", "export", "require", "include", "define", "declare",
   "return", "output", "input", "database", "schema", "schemas", "models", "model",
   "table", "tables", "query", "queries", "migration", "migrations", "index", "indexes",
   "field", "fields", "column", "columns", "deployment", "container", "containers",
   "service", "services", "cluster", "clusters", "instance", "instances", "environment",
   "environments", "manifest", "resource", "resources", "interface", "interfaces",
   "types", "typing", "object", "objects", "array", "arrays", "string", "strings",
   "number", "numbers", "boolean", "value", "values", "property", "properties"}

\* lowerQuery.split(/\s+/).filter((w) => w.length > 2)
queryWordsOf(lowerQuery) == SelectSeq(split(lowerQuery, Whitespace), LAMBDA w : Len(w) > 2)

strictCoreTermsOf(queryWords) == SelectSeq(queryWords, LAMBDA w : w \in coreTechPatterns)

supportingTermsOf(queryWords) ==
  SelectSeq(queryWords,
            LAMBDA w : w \notin coreTechPatterns /\ w \notin genericTerms /\ Len(w) >= 5)

InSeq(x, seq) == \E i \in 1..Len(seq) : seq[i] = x

\* Math.ceil(n * 0.6)
ceilSixTenths(n) == (6 * n + 9) \div 10

strictVeto_never(strictCoreTerms, strictCoreMatches) == FALSE

\* if (strictCoreTerms.length > 0 && strictCoreMatches === 0) return 0
strictVeto(strictCoreTerms, strictCoreMatches) ==
  Len(strictCoreTerms) > 0 /\ strictCoreMatches = 0

\* message: [type, message (its content), cwd, ...]; projectPath "" when absent
calculateRelevanceScore(message, query, projectPath) ==
  LET score(content, lowerQuery, queryWords, strictCoreTerms,
            strictCoreMatches, supportingMatches, residualMatches) ==
        IF strictVeto(strictCoreTerms, strictCoreMatches) THEN 0
        ELSE 10 * strictCoreMatches
             + 3 * supportingMatches
             + 2 * residualMatches
             + (IF includes(toLowerCase(content), lowerQuery) THEN 5 ELSE 0)
             + (IF /\ Len(queryWords) > 0
                   /\ strictCoreMatches + residualMatches >= ceilSixTenths(Len(queryWords))
                THEN 4 ELSE 0)
             + (IF message.type \in {"tool_use", "tool_result"} THEN 5 ELSE 0)
             + (IF \/ includes(content, "src/")
                   \/ includes(content, ".ts")
                   \/ includes(content, ".js")
                THEN 3 ELSE 0)
             + (IF projectPath # "" /\ message.cwd # "" /\ includes(message.cwd, projectPath)
                THEN 5 ELSE 0)
      counted(content, lowerQuery, queryWords, strictCoreTerms, supportingTerms) ==
        CHOOSE out \in
          {score(content, lowerQuery, queryWords, strictCoreTerms,
                 strictCoreMatches, supportingMatches, residualMatches) :
             strictCoreMatches \in
               {Len(SelectSeq(strictCoreTerms, LAMBDA t : matchesTechTerm(content, t)))},
             supportingMatches \in
               {Len(SelectSeq(supportingTerms, LAMBDA t : matchesTechTerm(content, t)))},
             residualMatches \in
               {Len(SelectSeq(queryWords,
                              LAMBDA w : /\ ~InSeq(w, strictCoreTerms)
                                         /\ ~InSeq(w, supportingTerms)
                                         /\ matchesTechTerm(content, w)))}} : TRUE
      worded(content, lowerQuery, queryWords) ==
        CHOOSE out \in
          {counted(content, lowerQuery, queryWords, strictCoreTerms, supportingTerms) :
             strictCoreTerms \in {strictCoreTermsOf(queryWords)},
             supportingTerms \in {supportingTermsOf(queryWords)}} : TRUE
  IN CHOOSE out \in
       {worded(content, lowerQuery, queryWordsOf(lowerQuery)) :
          content \in {extractContentFromMessage(message.message)},
          lowerQuery \in {toLowerCase(query)}} : TRUE

-----------------------------------------------------------------------------
(* Scores: exact rationals <<numerator, denominator>>, denominator > 0     *)

GCD(a, b) ==
  LET g[r \in Nat \X Nat] == IF r[2] = 0 THEN r[1] ELSE g[<<r[2], r[1] % r[2]>>]
  IN g[<<a, b>>]

Rat(n, d) ==
  CHOOSE out \in
    {IF x = 0 THEN <<0, 1>> ELSE <<x \div k, y \div k>> :
       x \in {n}, y \in {d}, k \in {GCD(IF n < 0 THEN -n ELSE n, d)}} : TRUE

RInt(n) == <<n, 1>>

RMul(a, b) ==
  CHOOSE out \in {Rat(x[1] * y[1], x[2] * y[2]) : x \in {a}, y \in {b}} : TRUE

RLess(a, b) == \E x \in {a}, y \in {b} : x[1] * y[2] < y[1] * x[2]

RGeq(a, b) == ~RLess(a, b)

-----------------------------------------------------------------------------
(* search: query analysis                                                  *)

classifyQueryType(query) ==
  LET typeOf(lowerQuery) ==
        LET has(w) == includes(lowerQuery, w)
        IN IF has("error") \/ has("bug") \/ has("fix") \/ has("issue") THEN "error"
           ELSE IF has("implement") \/ has("create") \/ has("build") \/ has("add")
                THEN "implementation"
           ELSE IF has("how") \/ has("why") \/ has("analyze") \/ has("understand")
                THEN "analysis"
           ELSE "general"
  IN CHOOSE out \in {typeOf(lowerQuery) : lowerQuery \in {toLowerCase(query)}} : TRUE

\* the boosts in the insertion order of the object literal: <<type, multiplier>>
getSemanticBoosts(query) ==
  LET all == << <<"error", "errorResolution", <<3, 1>> >>,
                <<"implement", "implementation", <<5, 2>> >>,
                <<"optimize", "optimization", <<2, 1>> >>,
                <<"fix", "solutions", <<14, 5>> >>,
                <<"file", "fileOperations", <<2, 1>> >>,
                <<"tool", "toolUsage", <<11, 5>> >> >>
  IN CHOOSE out \in
       {[i \in 1..Len(on) |-> <<on[i][2], on[i][3]>>] :
          on \in {SelectSeq(all, LAMBDA e : includes(query, e[1]))}} : TRUE

analyzeQueryIntent(query) ==
  CHOOSE out \in
    {[type |-> classifyQueryType(query),
      urgency |-> IF includes(lowerQuery, "error") \/ includes(lowerQuery, "failed")
                  THEN "high" ELSE "medium",
      scope |-> IF includes(lowerQuery, "project") \/ includes(lowerQuery, "all")
                THEN "broad" ELSE "focused",
      keywords |-> queryWordsOf(lowerQuery),
      semanticBoosts |-> getSemanticBoosts(lowerQuery)] :
       lowerQuery \in {toLowerCase(query)}} : TRUE

-----------------------------------------------------------------------------
(* search: selectTopRelevantResults                                        *)

\* A CompactMessage: [uuid, timestamp (hours), type, content, sessionId,
\* projectPath, relevanceScore, context], context a record of sequences
\* [toolsUsed, filesReferenced, errorPatterns, codeSnippets]

messageMatchesSemanticType(message, type) ==
  \E content \in {toLowerCase(message.content)} :
    CASE type = "errorResolution" ->
           \/ includes(content, "error")
           \/ includes(content, "exception")
           \/ Len(message.context.errorPatterns) > 0
      [] type = "implementation" ->
           \/ includes(content, "function")
           \/ includes(content, "implement")
           \/ Len(message.context.codeSnippets) > 0
      [] type = "optimization" ->
           \/ includes(content, "optimize")
           \/ includes(content, "performance")
           \/ includes(content, "faster")
      [] type = "solutions" ->
           \/ includes(content, "solution")
           \/ includes(content, "fix")
           \/ includes(content, "resolve")
      [] type = "fileOperations" -> Len(message.context.filesReferenced) > 0
      [] type = "toolUsage" -> Len(message.context.toolsUsed) > 0
      [] OTHER -> FALSE

baseScore_defaultOne(msg) == IF msg.relevanceScore = 0 THEN 1 ELSE msg.relevanceScore

\* let score = msg.relevanceScore || 0
baseScore(msg) == IF msg.relevanceScore = 0 THEN 0 ELSE msg.relevanceScore

\* query.split(/\s+/).filter((w) => w.length > 2), on the query as typed
significantWords(query) == SelectSeq(split(query, Whitespace), LAMBDA w : Len(w) > 2)

\* 2 to the power n
Pow2(n) ==
  LET P[k \in 0..n] == IF k = 0 THEN 1 ELSE 2 * P[k - 1]
  IN P[n]

\* the body of the map callback: the candidate's finalScore; now and
\* msg.timestamp are in hours
finalScoreOf(msg, query, analysis, now) ==
  LET \* coverageRatio >= 0.5, with coverageRatio 1 for a query without terms
      covered(score, matchCount, terms) ==
        IF terms = 0 \/ 2 * matchCount >= terms
        THEN RMul(RInt(score), RInt(Pow2(matchCount)))
        ELSE IF matchCount > 0
             THEN RMul(RInt(score), RMul(Rat(2 + matchCount, 2), Rat(matchCount, terms)))
             ELSE RMul(RInt(score), Rat(1, 10))
      boosted(start, boosts, hits) ==
        LET B[i \in 0..Len(boosts)] ==
              IF i = 0 THEN start
              ELSE IF hits[i] THEN RMul(B[i - 1], boosts[i][2]) ELSE B[i - 1]
        IN B[Len(boosts)]
      final(score, queryWords, contentLower, queryTerms, boosts) ==
        IF Len(queryWords) >= 2 /\ score = 0 THEN RInt(0)
        ELSE CHOOSE out \in
               {IF analysis.urgency = "high" /\ now - msg.timestamp < 24
                THEN RMul(b, Rat(3, 2)) ELSE b :
                  b \in {boosted(covered(score,
                                         Len(SelectSeq(queryTerms,
                                                       LAMBDA term : includes(contentLower, term))),
                                         Len(queryTerms)),
                                 boosts,
                                 [i \in 1..Len(boosts) |->
                                    messageMatchesSemanticType(msg, boosts[i][1])])}} : TRUE
  IN CHOOSE out \in
       {final(score, queryWords, contentLower, queryTerms, boosts) :
          score \in {baseScore(msg)},
          queryWords \in {significantWords(query)},
          contentLower \in {toLowerCase(msg.content)},
          queryTerms \in {queryWordsOf(toLowerCase(query))},
          boosts \in {analysis.semanticBoosts}} : TRUE

\* the characters of tool names (\w) in code-unit order
WordChars == Digits \o UpperAlpha \o "_" \o LowerAlpha

charCodeAt(c) == IF c \in CharsOf(WordChars) THEN AlphaIndex(WordChars, c) ELSE 0

\* a < b for strings, as Array.prototype.sort compares without a comparator
StringLess(a, b) ==
  \E x \in {a}, y \in {b} :
    LET differ == {i \in 1..(IF Len(x) < Len(y) THEN Len(x) ELSE Len(y)) :
                        Char(x, i) # Char(y, i)}
    IN IF differ = {} THEN Len(x) < Len(y)
       ELSE \E i \in differ :
              /\ \A j \in differ : i <= j
              /\ charCodeAt(Char(x, i)) < charCodeAt(Char(y, i))

\* Array.prototype.sort() on strings (stable insertion into the sorted prefix)
sortStrings(seq) ==
  LET insert(sorted, x) ==
        CHOOSE out \in
          {SubSeq(s, 1, k) \o <<x>> \o SubSeq(s, k + 1, Len(s)) :
             s \in {sorted},
             k \in {Cardinality({i \in 1..Len(sorted) : ~StringLess(x, sorted[i])})}} : TRUE
      S[i \in 0..Len(seq)] ==
        IF i = 0 THEN <<>>
        ELSE CHOOSE out \in {insert(prev, seq[i]) : prev \in {S[i - 1]}} : TRUE
  IN CHOOSE out \in {S[Len(seq)] : dummy \in {0}} : TRUE

\* s.replace(/[set]+/g, by): every maximal run of characters of the set
replaceRuns(s, set, by) ==
  CHOOSE out \in
    {concat([i \in 1..Len(v) |->
               IF Char(v, i) \notin set THEN Char(v, i)
               ELSE IF i > 1 /\ Char(v, i - 1) \in set THEN ""
               ELSE by]) : v \in {s}} : TRUE

\* a signature of the whole content as it is
createIntelligentSignature_keepsDigits(message) ==
  message.type \o ":" \o join(sortStrings(message.context.toolsUsed), "|") \o ":"
    \o (IF Len(message.context.filesReferenced) > 0 THEN "files" ELSE "nofiles")
    \o ":" \o message.content

createIntelligentSignature(message) ==
  LET contentHash ==
        CHOOSE out \in
          {slice(squeezed, 1, 80) :
             squeezed \in
               {replaceRuns(replaceRuns(replaceRuns(toLowerCase(message.content),
                                                    CharsOf(Digits), "N"),
                                        {"\"", "'"}, ""),
                            Whitespace, " ")}} : TRUE
      tools == join(sortStrings(message.context.toolsUsed), "|")
      files == IF Len(message.context.filesReferenced) > 0 THEN "files" ELSE "nofiles"
  IN message.type \o ":" \o tools \o ":" \o files \o ":" \o contentHash

\* the values of the signature-keyed Map, in insertion order; the signature
\* of a message leaves its context.toolsUsed sorted
intelligentDeduplicate(messages) ==
  LET \* seen: the Map's values as positions in msgs, in insertion order
      step(seen, i, msgs, sigOf) ==
        LET at == {k \in 1..Len(seen) : sigOf[seen[k]] = sigOf[i]}
        IN IF at = {} THEN Append(seen, i)
           ELSE LET k == CHOOSE j \in at : TRUE
                IN IF RLess(msgs[seen[k]].finalScore, msgs[i].finalScore)
                   THEN [seen EXCEPT ![k] = i]
                   ELSE seen
      dedup(msgs, sigOf) ==
        LET D[i \in 0..Len(msgs)] ==
              IF i = 0 THEN <<>>
              ELSE CHOOSE out \in {step(seen, i, msgs, sigOf) : seen \in {D[i - 1]}} : TRUE
        IN CHOOSE out \in {[k \in 1..Len(kept) |->
                               [msgs[kept[k]] EXCEPT
                                  !.context.toolsUsed = sortStrings(@)]] :
                             kept \in {D[Len(msgs)]}} : TRUE
  IN CHOOSE out \in
       {dedup(msgs, sigOf) :
          msgs \in {messages},
          sigOf \in {[i \in 1..Len(messages) |->
                        createIntelligentSignature(messages[i])]}} : TRUE

\* sort((a, b) => b.finalScore - a.finalScore): stable, highest first
sortByFinalScore(messages) ==
  LET insert(sorted, m) ==
        CHOOSE out \in
          {SubSeq(sorted, 1, k) \o <<m>> \o SubSeq(sorted, k + 1, Len(sorted)) :
             k \in {Cardinality({i \in 1..Len(sorted) :
                                   RGeq(sorted[i].finalScore, m.finalScore)})}} : TRUE
      sort(msgs) ==
        LET S[i \in 0..Len(msgs)] ==
              IF i = 0 THEN <<>>
              ELSE CHOOSE out \in {insert(prev, msgs[i]) : prev \in {S[i - 1]}} : TRUE
        IN S[Len(msgs)]
  IN CHOOSE out \in {sort(msgs) : msgs \in {messages}} : TRUE

\* a CompactMessage with its finalScore field
Scored(msg, finalScore) ==
  [uuid |-> msg.uuid, timestamp |-> msg.timestamp, type |-> msg.type,
   content |-> msg.content, sessionId |-> msg.sessionId, projectPath |-> msg.projectPath,
   relevanceScore |-> msg.relevanceScore, context |-> msg.context, origin |-> msg.origin,
   finalScore |-> finalScore]

Min(a, b) == IF a < b THEN a ELSE b

Max(a, b) == IF a > b THEN a ELSE b

\* Math.ceil(a / b) for a >= 0, b > 0
CeilDiv(a, b) == (a + b - 1) \div b

selectTopRelevantResults(candidates, query, analysis, limit, now) ==
  CHOOSE out \in
    {SubSeq(deduped, 1, Min(limit, Len(deduped))) :
       deduped \in
         {intelligentDeduplicate(sortByFinalScore(
            [i \in 1..Len(candidates) |->
               Scored(candidates[i],
                      finalScoreOf(candidates[i], query, analysis, now))]))}} : TRUE

isLowValueContent(content) ==
  \E lowerContent \in {toLowerCase(content)} :
    \/ includes(lowerContent, "local-command-stdout>(no content)")
    \/ includes(lowerContent, "command-name>/doctor")
    \/ includes(lowerContent, "system-reminder>")
    \/ includes(lowerContent, "much better! now i can see")
    \/ lowerContent \in {"ok", "yes", "no", "sure", "thanks",
                         "ok.", "yes.", "no.", "sure.", "thanks."}
    \/ /\ slice(lowerContent, 1, 6) = "error:"
       /\ CharsOf(slice(lowerContent, 7, Len(lowerContent))) \subseteq Whitespace
    \/ /\ slice(lowerContent, 1, 8) = "warning:"
       /\ CharsOf(slice(lowerContent, 9, Len(lowerContent))) \subseteq Whitespace
    \/ Len(trim(content)) < 20

\* (msg.finalScore || msg.relevanceScore || 0) >= 1.5 && content.length >= 40
\* && !isLowValueContent(content)
qualityGate(msg) ==
  \E m \in {msg} :
    /\ RGeq(IF m.finalScore[1] # 0 THEN m.finalScore ELSE RInt(m.relevanceScore), Rat(3, 2))
    /\ Len(m.content) >= 40
    /\ ~isLowValueContent(m.content)

noisePatterns ==
  {"this session is being continued", "caveat:", "command-name>", "local-command-stdout",
   "system-reminder", "command-message>", "much better! now i can see", "package.js",
   "export interface", "you are claude code", "read-only mode", "i cannot make changes",
   "i'm in plan mode", "hello! i'm claude", "i am claude", "ready to help you",
   "what would you like me to", "how can i assist", "i understand that i'm"}

matchesQueryIntent(message, analysis) ==
  \E content \in {toLowerCase(message.content)} :
    CASE analysis.type = "error" ->
           \/ includes(content, "error")
           \/ includes(content, "fix")
           \/ includes(content, "solution")
           \/ Len(message.context.errorPatterns) > 0
      [] analysis.type = "implementation" ->
           \/ includes(content, "implement")
           \/ includes(content, "create")
           \/ includes(content, "function")
           \/ Len(message.context.codeSnippets) > 0
      [] analysis.type = "analysis" ->
           \/ includes(content, "analyze")
           \/ includes(content, "understand")
           \/ includes(content, "explain")
           \/ (message.type = "assistant" /\ Len(content) > 100)
      [] OTHER ->
           \/ Len(message.context.toolsUsed) > 0
           \/ (message.type = "assistant" /\ Len(content) > 80)

\* relevanceScore is an integer here, so (relevanceScore || 0) < 0.3 is "< 1"
isHighlyRelevant(message, query, analysis) ==
  \E content \in {toLowerCase(message.content)} :
    /\ \A pattern \in noisePatterns : ~includes(content, pattern)
    /\ Len(content) >= 40
    /\ message.relevanceScore >= 1
    /\ matchesQueryIntent(message, analysis)

-----------------------------------------------------------------------------
(* parser: extractContext and parseJsonlFile                               *)

\* \w of a regular expression
WordCharSet == CharsOf(WordChars)

\* [\w\-/\\.] : the characters of a file path in the file patterns
PathCharSet == WordCharSet \cup {"-", "/", "\\", "."}

\* the end of the maximal run of characters of the set that starts at i
\* (i - 1 when the character at i is not in the set)
runEnd(s, i, set) ==
  CHOOSE out \in
    {IF stops = {} THEN Len(v) ELSE (CHOOSE j \in stops : \A k \in stops : j <= k) - 1 :
       v \in {s}, stops \in {{j \in i..Len(s) : Char(s, j) \notin set}}} : TRUE

\* the captures of /prefix\s*(\w+)suffix/gi in content, in order
captureWords(content, prefix, suffix) ==
  LET \* <<first, last>> of the captured word of a match that starts at i
      wordAt(v, i) ==
        CHOOSE out \in
          {<<from, runEnd(v, from, WordCharSet)>> :
             from \in {runEnd(v, i + Len(prefix), Whitespace) + 1}} : TRUE
      matches(lower, w) ==
        /\ w[2] >= w[1]
        /\ slice(lower, w[2] + 1, w[2] + Len(suffix)) = suffix
      captures(v, lower) ==
        CHOOSE out \in
          {[k \in 1..Len(found) |-> SubSeq(v, found[k][1], found[k][2])] :
             found \in
               {SelectSeq([k \in 1..Len(starts) |-> wordAt(v, starts[k])],
                          LAMBDA w : matches(lower, w)) :
                  starts \in
                    {ascending({i \in 1..Len(v) :
                                  slice(lower, i, i + Len(prefix) - 1) = prefix})}}} : TRUE
  IN CHOOSE out \in
       {captures(v, lower) : v \in {content}, lower \in {toLowerCase(content)}} : TRUE

\* name.replace(/^mcp__.*?__/, '').replace(/[_-]/g, '')
cleanToolName(name) ==
  LET rest(v) ==
        LET closers == {i \in 6..Len(v) - 1 : slice(v, i, i + 1) = "__"}
        IN IF slice(v, 1, 5) = "mcp__" /\ closers # {}
           THEN SubSeq(v, (CHOOSE i \in closers : \A j \in closers : i <= j) + 2, Len(v))
           ELSE v
  IN CHOOSE out \in
       {concat([i \in 1..Len(r) |-> IF Char(r, i) \in {"_", "-"} THEN "" ELSE Char(r, i)]) :
          r \in {CHOOSE x \in {rest(v) : v \in {name}} : TRUE}} : TRUE

\* Array.from(new Set(seq)): first occurrences, in order
uniqueInOrder(seq) ==
  LET unique(v) ==
        LET U[i \in 0..Len(v)] ==
              IF i = 0 THEN <<>>
              ELSE CHOOSE out \in
                     {IF InSeq(v[i], prev) THEN prev ELSE Append(prev, v[i]) :
                        prev \in {U[i - 1]}} : TRUE
        IN U[Len(v)]
  IN CHOOSE out \in {unique(v) : v \in {seq}} : TRUE

\* tools: the tool_use items of the message (methods 1 and 2), then the
\* text patterns "[Tool: X]", "Called the X tool" and "Result of calling the
\* X tool" (method 3); the mcp__ and JSON patterns of method 3 need text
\* that the corpus of this model does not hold
toolsUsedOf(message, content) ==
  LET fromItems(items) ==
        CHOOSE out \in
          {[i \in 1..Len(named) |-> named[i].name] :
             named \in {SelectSeq(items,
                                  LAMBDA item : item.type = "tool_use" /\ item.name # "")}} : TRUE
      cleaned(all) == [i \in 1..Len(all) |-> cleanToolName(all[i])]
  IN CHOOSE out \in
       {uniqueInOrder(SelectSeq(cleaned(all), LAMBDA name : name # "")) :
          all \in
            {fromItems(IF message.kind = "array" THEN message.items ELSE <<>>)
               \o captureWords(content, "[tool:", "]")
               \o captureWords(content, "called the ", " tool")
               \o captureWords(content, "result of calling the ", " tool")}} : TRUE

fileExtensions ==
  {"ts", "tsx", "js", "jsx", "json", "md", "py", "java", "cpp", "c", "h", "css", "html",
   "yml", "yaml", "toml", "rs", "go", "txt", "log", "env", "config", "gitignore", "lock",
   "sql", "sh", "bat", "php", "rb", "swift", "kt", "scala", "fs", "clj", "ex", "elm",
   "vue", "svelte", "astro"}

\* a maximal run of path characters holds a match of one of
\*   /[\w\-/\\.]+\.(ts|tsx|...)(?:\b|$)/gi, /src\/[\w\-/\\.]+/gi, /\.\/[\w\-/\\.]+/gi
isFileReference(token) ==
  \E t \in {token}, lower \in {toLowerCase(token)} :
    \/ \E i \in 2..Len(t), e \in fileExtensions :
         /\ Char(t, i) = "."
         /\ slice(lower, i + 1, i + Len(e)) = e
         /\ (i + Len(e) = Len(t) \/ Char(t, i + Len(e) + 1) \notin WordCharSet)
    \/ \E i \in 1..Len(t) - 4 : slice(lower, i, i + 3) = "src/"
    \/ \E i \in 1..Len(t) - 2 : slice(t, i, i + 1) = "./"

\* files: the runs of path characters that hold a file reference; the
\* git-status, prefixed-path and well-known-name patterns need text that the
\* corpus of this model does not hold, and its tool_use items carry no input
filesReferencedOf(content) ==
  CHOOSE out \in
    {uniqueInOrder(SelectSeq(split(spaced, {" "}), LAMBDA t : t # "" /\ isFileReference(t))) :
       spaced \in
         {CHOOSE x \in
            {concat([i \in 1..Len(v) |->
                       IF Char(v, i) \in PathCharSet THEN Char(v, i) ELSE " "]) :
               v \in {content}} : TRUE}} : TRUE

\* the error expressions of extractContext, all /gi: the alternatives of
\* each in lower case, and whether a text must follow the match of the word,
\* [:\s]+([^\n]+), or may follow it, [:\s]*([^\n]*)
errorExpressions ==
  <<[words |-> <<"error">>, text |-> TRUE],
    [words |-> <<"failed">>, text |-> TRUE],
    [words |-> <<"exception">>, text |-> TRUE],
    [words |-> <<"cannot">>, text |-> TRUE],
    [words |-> <<"unable to">>, text |-> TRUE],
    [words |-> <<"enoent", "eacces", "etimedout", "econnrefused", "eperm", "eexist",
                 "enotdir", "eisdir">>, text |-> TRUE],
    [words |-> <<"typeerror", "referenceerror", "syntaxerror", "rangeerror", "urierror">>,
     text |-> TRUE],
    [words |-> <<"permission denied">>, text |-> FALSE],
    [words |-> <<"connection refused">>, text |-> FALSE],
    [words |-> <<"module not found">>, text |-> FALSE],
    [words |-> <<"command not found">>, text |-> FALSE],
    [words |-> <<"no such file">>, text |-> FALSE],
    [words |-> <<"not found">>, text |-> FALSE]>>

\* content.match(expression): the matches from left to right, none inside
\* another, each cut by substring(0, 100)
errorMatches(content, lower, expression) ==
  LET separators == Whitespace \cup {":"}
      \* the position before the first line break at or after p
      endOfLine(p) ==
        CHOOSE out \in
          {IF stops = {} THEN Len(content)
           ELSE (CHOOSE j \in stops : \A k \in stops : j <= k) - 1 :
             stops \in {{j \in p..Len(content) : Char(content, j) = "\n"}}} : TRUE
      \* the last position of the match whose word ends before "from"; 0
      \* when the expression does not match there
      endAfter(from) ==
        CHOOSE out \in
          {IF cuts = {} THEN 0
           ELSE endOfLine((CHOOSE c \in cuts : \A d \in cuts : d <= c) + 1) :
             cuts \in
               {CHOOSE x \in
                  {IF expression.text
                   THEN {c \in from..(IF to < Len(lower) THEN to ELSE Len(lower) - 1) :
                           Char(lower, c + 1) # "\n"}
                   ELSE {to} : to \in {runEnd(lower, from, separators)}} : TRUE}} : TRUE
      wordsAt(i) ==
        {k \in 1..Len(expression.words) :
           /\ i + Len(expression.words[k]) - 1 <= Len(lower)
           /\ SubSeq(lower, i, i + Len(expression.words[k]) - 1) = expression.words[k]}
      lengthAt(i) ==
        Len(expression.words[CHOOSE k \in wordsAt(i) : \A n \in wordsAt(i) : k <= n])
      scan(candidates) ==
        LET G[k \in 0..Len(candidates)] ==
              IF k = 0 THEN [last |-> 0, found |-> <<>>]
              ELSE CHOOSE out \in
                     {IF candidates[k] <= prev.last \/ end = 0 THEN prev
                      ELSE [last |-> end,
                            found |-> Append(prev.found,
                                             slice(content, candidates[k],
                                                   IF end < candidates[k] + 99 THEN end
                                                   ELSE candidates[k] + 99))] :
                        prev \in {G[k - 1]},
                        end \in {IF candidates[k] <= G[k - 1].last THEN 0
                                 ELSE endAfter(candidates[k] + lengthAt(candidates[k]))}} : TRUE
        IN G[Len(candidates)].found
  IN CHOOSE out \in
       {scan(candidates) :
          candidates \in
            {ascending({i \in 1..Len(lower) :
                          \E k \in 1..Len(expression.words) :
                            /\ i + Len(expression.words[k]) - 1 <= Len(lower)
                            /\ SubSeq(lower, i, i + Len(expression.words[k]) - 1)
                                 = expression.words[k]})}} : TRUE

\* errors: Array.from of the Set of the matches of every expression
errorPatternsOf(content) ==
  LET all(lower) ==
        LET A[k \in 0..Len(errorExpressions)] ==
              IF k = 0 THEN <<>>
              ELSE CHOOSE out \in
                     {prev \o errorMatches(content, lower, errorExpressions[k]) :
                        prev \in {A[k - 1]}} : TRUE
        IN A[Len(errorExpressions)]
  IN CHOOSE out \in {uniqueInOrder(all(lower)) : lower \in {toLowerCase(content)}} : TRUE

\* snippets: fenced blocks and inline spans are delimited by the grave
\* accent, a character no text of this model's corpus holds
extractCodeSnippets(content) == <<>>

extractContext(message, content) ==
  [toolsUsed |-> toolsUsedOf(message, content),
   filesReferenced |-> filesReferencedOf(content),
   errorPatterns |-> errorPatternsOf(content),
   codeSnippets |-> extractCodeSnippets(content)]

\* the clock, in hours: 10:00 on day 100
NowHours == 100 * 24 + 10

\* decodeProjectPath: encodedPath.replace(/-/g, '/')
decodeProjectPath(encodedPath) ==
  CHOOSE out \in
    {concat([i \in 1..Len(v) |-> IF Char(v, i) = "-" THEN "/" ELSE Char(v, i)]) :
       v \in {encodedPath}} : TRUE

\* getTimeRangeFilter(timeframe)(timestamp), timeframe "" when absent; the
\* clock stands in a month that follows a 30-day month
timeFilter(timeframe, timestamp) ==
  LET midnight == NowHours - (NowHours % 24)
  IN \E tf \in {toLowerCase(timeframe)} :
       CASE tf = "today" -> timestamp >= midnight
         [] tf = "yesterday" -> timestamp >= midnight - 24
         [] tf \in {"week", "last-week"} -> timestamp >= NowHours - 7 * 24
         [] tf \in {"month", "last-month"} -> timestamp >= NowHours - 30 * 24
         [] OTHER -> TRUE

(* ConversationParser: what is kept of a content                           *)

\* sub stands in s from position i on
startsAt(s, i, sub) ==
  i >= 1 /\ i + Len(sub) - 1 <= Len(s) /\ SubSeq(s, i, i + Len(sub) - 1) = sub

IsDigitAt(s, i) == i >= 1 /\ i <= Len(s) /\ Char(s, i) \in CharsOf(Digits)

IsWordAt(s, i) == i >= 1 /\ i <= Len(s) /\ Char(s, i) \in WordCharSet

\* the positions where /:\d+:\d+/ matches
colonDigitsAt(s) ==
  {j \in 1..Len(s) :
     /\ Char(s, j) = ":"
     /\ IsDigitAt(s, j + 1)
     /\ \E k \in {runEnd(s, j + 1, CharsOf(Digits)) + 1} :
          startsAt(s, k, ":") /\ IsDigitAt(s, k + 1)}

\* a fenced block: the grave accent cannot be written in a string of this
\* module, and no text of the model holds one
hasCodeFence(content) == FALSE

\* /\{\s*\n.*\}\s*$/s
endsWithBlock(content) ==
  \E trailing \in {{n \in 0..(Len(content) - 1) :
                      Char(content, Len(content) - n) \notin Whitespace}} :
    /\ trailing # {}
    /\ \E k \in {Len(content) - (CHOOSE n \in trailing : \A m \in trailing : n <= m)} :
         /\ Char(content, k) = "}"
         /\ \E i \in 1..k : /\ Char(content, i) = "{"
                            /\ \E n \in (i + 1)..(k - 1) :
                                 /\ Char(content, n) = "\n"
                                 /\ n <= runEnd(content, i + 1, Whitespace)

\* /\.(ts|js|json|md|py|java|cpp|rs|go|yml|yaml)\b/
hasSourceExtension(content) ==
  \E i \in 1..Len(content) :
    /\ Char(content, i) = "."
    /\ \E e \in {"ts", "js", "json", "md", "py", "java", "cpp", "rs", "go", "yml", "yaml"} :
         /\ startsAt(content, i + 1, e)
         /\ ~IsWordAt(content, i + Len(e) + 1)

detectContentType(content) ==
  IF \/ hasCodeFence(content)
     \/ includes(content, "function ")
     \/ includes(content, "const ")
     \/ includes(content, "import ")
     \/ includes(content, "export ")
     \/ endsWithBlock(content)
  THEN "code"
  ELSE IF /\ \E lower \in {toLowerCase(content)} :
               \E word \in {"error", "exception", "failed", "cannot", "unable to",
                            "stack trace"} : includes(lower, word)
          /\ \/ \E i \in 1..Len(content) :
                  startsAt(content, i, "at ") /\ IsWordAt(content, i + 3)
             \/ \E i \in 1..Len(content) :
                  startsAt(content, i, "line ") /\ IsDigitAt(content, i + 5)
             \/ colonDigitsAt(content) # {}
  THEN "error"
  ELSE IF \/ hasSourceExtension(content)
          \/ includes(content, "src/")
          \/ includes(content, "./")
          \/ \E i \in 1..Len(content) :
               IsWordAt(content, i) /\ startsAt(content, i + 1, ":") /\ IsDigitAt(content, i + 2)
          \/ includes(content, "tool_use")
  THEN "technical"
  ELSE "conversational"

getContentLimit(content) ==
  CASE detectContentType(content) = "code" -> 4000
    [] detectContentType(content) = "error" -> 3500
    [] detectContentType(content) = "technical" -> 3500
    [] OTHER -> 3000

\* /at \w+.*:\d+:\d+/ : within one line
hasStackFrame(content) ==
  \E i \in 1..Len(content) :
    /\ startsAt(content, i, "at ")
    /\ IsWordAt(content, i + 3)
    /\ \E j \in colonDigitsAt(content) :
         /\ j > i + 3
         /\ \A n \in (i + 4)..(j - 1) : Char(content, n) # "\n"

hasStructuredContent(content) ==
  \/ includes(content, "function ")
  \/ includes(content, "Error:")
  \/ includes(content, "Exception:")
  \/ hasCodeFence(content)
  \/ hasStackFrame(content)
  \/ includes(content, "Solution:")
  \/ includes(content, "TypeError:")

\* the smallest member of a non-empty set of positions
First(positions) == CHOOSE i \in positions : \A j \in positions : i <= j

\* content.match(/function\s+\w+[^}]*\}/): the match, "" when there is none
functionMatch(content) ==
  LET matchEnd(i) ==
        LET w == runEnd(content, i + 8, Whitespace) + 1
        IN First({p \in (w + 1)..Len(content) : Char(content, p) = "}"})
      matchable(i) ==
        /\ startsAt(content, i, "function")
        /\ i + 8 <= Len(content)
        /\ Char(content, i + 8) \in Whitespace
        /\ \E w \in {runEnd(content, i + 8, Whitespace) + 1} :
             /\ IsWordAt(content, w)
             /\ \E p \in (w + 1)..Len(content) : Char(content, p) = "}"
      found(starts) ==
        IF starts = {} THEN ""
        ELSE SubSeq(content, First(starts), matchEnd(First(starts)))
  IN CHOOSE out \in {found(starts) : starts \in {{i \in 1..Len(content) : matchable(i)}}} : TRUE

\* content.match(/(keywords):[^\n]*(\n[^\n]*)*?(?=\n\n|\n[A-Z]|$)/): the match
\* from the leftmost keyword to the first end of a line that is followed by
\* an empty line, by a line that starts with a capital, or by nothing; ""
\* when no keyword occurs
sectionMatch(content, keywords) ==
  LET \* where the keyword that starts at i ends, 0 when none starts there
      colonOf(i) ==
        LET ends == {i + Len(k) : k \in {k \in keywords : startsAt(content, i, k \o ":")}}
        IN IF ends = {} THEN 0 ELSE First(ends)
      stopsHere(p) ==
        \/ p = Len(content)
        \/ /\ Char(content, p + 1) = "\n"
           /\ p + 2 <= Len(content)
           /\ (Char(content, p + 2) = "\n" \/ Char(content, p + 2) \in UpperChars)
      found(starts) ==
        IF starts = {} THEN ""
        ELSE SubSeq(content, First(starts),
                    First({p \in colonOf(First(starts))..Len(content) : stopsHere(p)}))
  IN CHOOSE out \in {found(starts) : starts \in {{i \in 1..Len(content) : colonOf(i) > 0}}} :
       TRUE

\* the loop over the sections, highest priority first (the sort is stable)
preserveStructuredContent(content, maxLength) ==
  LET fitted(sections) ==
        LET R[k \in 0..Len(sections)] ==
              IF k = 0 THEN [result |-> "", broke |-> FALSE]
              ELSE CHOOSE out \in
                     {IF prev.broke THEN prev
                      ELSE IF Len(prev.result) + Len(sections[k]) + 2 <= maxLength
                      THEN [result |-> prev.result \o sections[k] \o "\n\n", broke |-> FALSE]
                      ELSE [result |->
                              IF maxLength - Len(prev.result) - 5 > 50
                              THEN prev.result
                                     \o slice(sections[k], 1, maxLength - Len(prev.result) - 5)
                                     \o "..."
                              ELSE prev.result,
                            broke |-> TRUE] : prev \in {R[k - 1]}} : TRUE
        IN trim(R[Len(sections)].result)
  IN CHOOSE out \in
       {fitted(SelectSeq(<<function, error, solution>>, LAMBDA section : section # "")) :
          function \in {functionMatch(content)},
          error \in {sectionMatch(content, {"Error", "Exception", "TypeError"})},
          solution \in {sectionMatch(content, {"Solution"})}} : TRUE

highValueTerms ==
  <<"solution", "fix", "error", "problem", "resolved", "working", "success", "function",
    "class", "import", "export", "const", "let", "var", "install", "update", "create",
    "build", "test", "deploy", "file", "path", "directory", "config", "settings">>

\* the score of one sentence of extractMostValuableContent; a sentence of the
\* model holds no grave accent
sentenceScore(sentence, content) ==
  LET scored(lowerSentence) ==
        Cardinality({t \in 1..Len(highValueTerms) :
                       includes(lowerSentence, highValueTerms[t])}) * 2
        + (IF \/ includes(sentence, "/")
              \/ includes(sentence, ".ts")
              \/ includes(sentence, ".js") THEN 3 ELSE 0)
        + (IF \/ includes(lowerSentence, "now")
              \/ includes(lowerSentence, "result")
              \/ includes(lowerSentence, "this will") THEN 2 ELSE 0)
        - (IF Len(sentence) < 40 THEN 1 ELSE 0)
        - (IF \/ includes(lowerSentence, "this session is being continued")
              \/ includes(lowerSentence, "caveat:")
              \/ includes(lowerSentence, "command-name>")
              \/ includes(lowerSentence, "generated by the user while running")
              \/ includes(lowerSentence, "local-command-stdout")
              \/ includes(lowerSentence, "analysis:")
              \/ includes(lowerSentence, "command-message>")
              \/ includes(lowerSentence, "system-reminder")
              \/ Len(content) < 50 THEN 50 ELSE 0)
  IN CHOOSE out \in {scored(lowerSentence) : lowerSentence \in {toLowerCase(sentence)}} : TRUE

extractMostValuableContent(content, maxLength) ==
  LET \* sort((a, b) => b.score - a.score): stable, highest first
      sortByScore(scored) ==
        LET insert(sorted, m) ==
              CHOOSE out \in
                {SubSeq(sorted, 1, k) \o <<m>> \o SubSeq(sorted, k + 1, Len(sorted)) :
                   k \in {Cardinality({i \in 1..Len(sorted) : sorted[i].score >= m.score})}} :
                  TRUE
            S[i \in 0..Len(scored)] ==
              IF i = 0 THEN <<>>
              ELSE CHOOSE out \in {insert(prev, scored[i]) : prev \in {S[i - 1]}} : TRUE
        IN S[Len(scored)]
      built(sortedSentences) ==
        LET R[k \in 0..Len(sortedSentences)] ==
              IF k = 0 THEN [result |-> "", broke |-> FALSE]
              ELSE CHOOSE out \in
                     {IF prev.broke THEN prev
                      ELSE IF Len(prev.result) + Len(sortedSentences[k].sentence) + 2
                                <= maxLength
                      THEN [result |-> prev.result \o sortedSentences[k].sentence \o ". ",
                            broke |-> FALSE]
                      ELSE [result |-> prev.result, broke |-> TRUE] :
                        prev \in {R[k - 1]}} : TRUE
        IN R[Len(sortedSentences)].result
      bySentences(sentences) ==
        CHOOSE out \in
          {IF result # "" THEN result ELSE slice(content, 1, maxLength - 3) \o "..." :
             result \in
               {trim(built(sortByScore(SelectSeq(
                  [i \in 1..Len(sentences) |->
                     [sentence |-> trim(sentences[i]),
                      score |-> sentenceScore(sentences[i], content)]],
                  LAMBDA s : s.score > 0))))}} : TRUE
  IN IF hasStructuredContent(content) THEN preserveStructuredContent(content, maxLength)
     ELSE CHOOSE out \in
            {bySentences(sentences) :
               sentences \in {SelectSeq(split(content, {".", "!", "?"}),
                                        LAMBDA s : Len(trim(s)) > 20)}} : TRUE

\* The strategies by content type that follow the extraction are not reached:
\* extractMostValuableContent returns at most maxLength characters.
smartContentPreservation(content, maxLength) ==
  IF Len(content) <= maxLength THEN content
  ELSE extractMostValuableContent(content, maxLength)

\* A line of a JSONL file: [json, uuid, timestamp, type, message, sessionId,
\* cwd]; json says what JSON.parse makes of the line: "ok", "malformed"
\* (JSON.parse throws) or "numeric-cwd" (an object whose cwd is a number)

\* calculateRelevanceScore throws at message.cwd.includes(projectPath) when
\* cwd is a number: it gets there unless the strict veto returned before
scoringThrows(line, query, projectPath) ==
  /\ line.json = "numeric-cwd"
  /\ projectPath # ""
  /\ \E content \in {extractContentFromMessage(line.message)} :
       \E strictCoreTerms \in {strictCoreTermsOf(queryWordsOf(toLowerCase(query)))} :
         ~strictVeto(strictCoreTerms,
                     Len(SelectSeq(strictCoreTerms, LAMBDA t : matchesTechTerm(content, t))))

\* the body of the ingestion loop for one line throws, and the catch of the
\* loop body skips the line
lineThrows(projectDir, line, query, timeframe) ==
  \/ line.json = "malformed"
  \/ /\ timeFilter(timeframe, line.timestamp)
     /\ extractContentFromMessage(line.message) # ""
     /\ query # ""
     /\ scoringThrows(line, query, projectDir)

\* the body of the ingestion loop for one line: the CompactMessage it
\* pushes, as a sequence of zero or one element; timestamps are kept in
\* hours
parseLine(projectDir, filename, index, line, query, timeframe) ==
  LET pushed(content) ==
        IF content = "" THEN <<>>
        ELSE IF query # "" /\ scoringThrows(line, query, projectDir) THEN <<>>
        ELSE << [uuid |-> line.uuid,
                 timestamp |-> line.timestamp,
                 type |-> line.type,
                 content |-> smartContentPreservation(content, getContentLimit(content)),
                 sessionId |-> line.sessionId,
                 projectPath |-> decodeProjectPath(projectDir),
                 relevanceScore |-> IF query # ""
                                    THEN calculateRelevanceScore(line, query, projectDir)
                                    ELSE 0,
                 context |-> extractContext(line.message, content),
                 origin |-> <<projectDir, filename, index>>] >>
  IN IF line.json = "malformed" THEN <<>>
     ELSE IF ~timeFilter(timeframe, line.timestamp) THEN <<>>
     ELSE CHOOSE out \in
            {pushed(content) : content \in {extractContentFromMessage(line.message)}} : TRUE

\* updateSessionInfo for a line whose record was pushed; the record holds
\* the line's sessionId and timestamp and the decoded project path, and
\* every timestamp of this model is a valid one
updateSessionInfo(sessionsV, message) ==
  LET known == \E n \in 1..Len(sessionsV) : sessionsV[n].sessionId = message.sessionId
      opened == IF known THEN sessionsV
                ELSE Append(sessionsV, [sessionId |-> message.sessionId,
                                        projectPath |-> message.projectPath,
                                        startTime |-> message.timestamp,
                                        endTime |-> message.timestamp,
                                        messageCount |-> 0])
  IN [n \in 1..Len(opened) |->
        IF opened[n].sessionId = message.sessionId
        THEN [opened[n] EXCEPT !.endTime = message.timestamp,
                               !.messageCount = @ + 1,
                               !.startTime = IF message.timestamp < @
                                             THEN message.timestamp ELSE @]
        ELSE opened[n]]

\* this.sessions after a parse that pushed these records
sessionsAfter(sessionsV, messages) ==
  LET S[i \in 0..Len(messages)] ==
        IF i = 0 THEN sessionsV
        ELSE CHOOSE out \in {updateSessionInfo(prev, messages[i]) : prev \in {S[i - 1]}} : TRUE
  IN CHOOSE out \in {S[Len(messages)] : dummy \in {0}} : TRUE

\* a parser whose catch stands around the loop: the first line that throws
\* ends the scan
parseJsonlFile_aborts(projectDir, filename, lines, delivered, query, timeframe) ==
  LET stops == {i \in 1..delivered : lineThrows(projectDir, lines[i], query, timeframe)}
      read == IF stops = {} THEN delivered
              ELSE (CHOOSE i \in stops : \A j \in stops : i <= j) - 1
      P[i \in 0..read] ==
        IF i = 0 THEN <<>>
        ELSE P[i - 1] \o parseLine(projectDir, filename, i, lines[i], query, timeframe)
  IN P[read]

\* parseJsonlFile when the stream delivers the first lines, as many as
\* "delivered" says, and then ends or fails: the messages accumulated so far
\* are returned
parseJsonlFile(projectDir, filename, lines, delivered, query, timeframe) ==
  LET parsed == [i \in 1..delivered |->
                   parseLine(projectDir, filename, i, lines[i], query, timeframe)]
      P[i \in 0..delivered] ==
        IF i = 0 THEN <<>>
        ELSE CHOOSE out \in {prev \o parsed[i] : prev \in {P[i - 1]}} : TRUE
  IN CHOOSE out \in {P[delivered] : dummy \in {0}} : TRUE

-----------------------------------------------------------------------------
(* The term matcher applied to bounded inputs                              *)

\* Longest enumerated content, in characters
MaxContentLen == 4

\* lower-, upper-case letters, a delimiter, a character the cleaning strips
MatchAlphabet == {"r", "R", "e", "E", " ", "/"}

StringsUpTo(alphabet, n) ==
  LET S[k \in 0..n] ==
        IF k = 0 THEN {""} ELSE S[k - 1] \cup {s \o c : s \in S[k - 1], c \in alphabet}
  IN S[n]

MatchContents ==
  StringsUpTo(MatchAlphabet, MaxContentLen)
    \cup {"a ReAct pattern", "a React pattern", "a REACT pattern",
          "ReAct, then react.", "use (Docker) now", "re-act re_act", "web-pack"}

MatchTerms == {"re", "react", "Docker", "re-act"}

Idle == [fn |-> "none"]

NoRequest == [pc |-> "idle"]

NoResponse == [op |-> "none"]

\* changed: the corpus was written since construction; first: the query and
\* timeframe of the first search that scanned; uniform: every search that
\* scanned used them; cache0: the cache when the latest search started
NoHistory == [changed |-> FALSE, first |-> <<"", "">>, uniform |-> TRUE, cache0 |-> <<>>]

MatchInit ==
  /\ call \in {[fn |-> "matchesTechTerm", content |-> c, term |-> t,
                done |-> FALSE, out |-> FALSE] : c \in MatchContents, t \in MatchTerms}
  /\ corpus = <<>>
  /\ disk = {}
  /\ cache = <<>>
  /\ req = NoRequest
  /\ resp = NoResponse
  /\ hist = NoHistory
  /\ sessions = <<>>

ApplyMatch ==
  /\ call.fn = "matchesTechTerm"
  /\ ~call.done
  /\ call' = [call EXCEPT !.done = TRUE, !.out = matchesTechTerm(call.content, call.term)]
  /\ UNCHANGED <<corpus, disk, cache, req, resp, hist, sessions>>

MatchNext == ApplyMatch

SpecMatch == MatchInit /\ [][MatchNext]_vars

\* The words of content: the maximal delimiter-free stretches <<i, j>>
WordSpans(content) ==
  {sp \in (1..Len(content)) \X (1..Len(content)) :
     /\ sp[1] <= sp[2]
     /\ \A k \in sp[1]..sp[2] : Char(content, k) \notin TechDelims
     /\ sp[1] = 1 \/ Char(content, sp[1] - 1) \in TechDelims
     /\ sp[2] = Len(content) \/ Char(content, sp[2] + 1) \in TechDelims}

\* The positions of a word that survive the cleaning, in order
KeptPositions(content, sp) ==
  SelectSeq([k \in 1..(sp[2] - sp[1] + 1) |-> sp[1] + k - 1],
            LAMBDA p : Char(content, p) \in WordOrHyphen)

NormalWordEquals(content, sp, term) ==
  LET ps == KeptPositions(content, sp)
      ch(k) == Char(content, ps[k])
  IN /\ Len(ps) = Len(term)
     /\ Len(ps) > 0
     /\ \A k \in 1..Len(ps) : toLowerChar(ch(k)) = toLowerChar(Char(term, k))
     /\ \/ \A k \in 1..Len(ps) : ~IsUpperChar(ch(k))
        \/ \A k \in 1..Len(ps) : ~IsLowerChar(ch(k))
        \/ /\ ~IsLowerChar(ch(1))
           /\ \A k \in 2..Len(ps) : ~IsUpperChar(ch(k))

\* C2: matches(content, term) is true exactly when some word of content,
\* split on the delimiter set and stripped of non-word/non-hyphen characters,
\* equals term case-insensitively and is all-lowercase, all-uppercase or
\* title-case; a word of any other capitalisation does not match but does not
\* stop the scan. matches("a ReAct pattern", "react") is false,
\* matches("a React pattern", "react") and matches("a REACT pattern", "react")
\* are true.
C2_CasingGate ==
  (call.fn = "matchesTechTerm" /\ call.done) =>
    /\ call.out = (\E sp \in WordSpans(call.content) :
                     NormalWordEquals(call.content, sp, call.term))
    /\ (call.content = "a ReAct pattern" /\ call.term = "react") => ~call.out
    /\ (call.content \in {"a React pattern", "a REACT pattern"} /\ call.term = "react")
         => call.out

\* A mixed-case word was passed over and a later, normally cased word matched
C2_Witness ==
  /\ call.fn = "matchesTechTerm"
  /\ call.done
  /\ call.content = "ReAct, then react."
  /\ call.term = "react"
  /\ call.out

-----------------------------------------------------------------------------
(* The relevance scorer applied to bounded inputs                          *)

\* Most words in an enumerated query
MaxQueryWords == 3

\* a strict-core name (capitalised, as a user may type it), a second one, a
\* supporting word, a generic word of five or more letters, a short residual word
QueryVocabulary == <<"React", "docker", "hooks", "optimization", "auth">>

\* the queries of at most n vocabulary words, joined by single blanks
QueriesUpTo(n) ==
  LET Q[k \in 1..n] ==
        IF k = 1 THEN {QueryVocabulary[i] : i \in 1..Len(QueryVocabulary)}
        ELSE Q[k - 1] \cup {q \o " " \o QueryVocabulary[i] :
                              q \in Q[k - 1], i \in 1..Len(QueryVocabulary)}
  IN Q[n]

ScoreQueries == QueriesUpTo(MaxQueryWords) \cup {"react hooks optimization", "docker auth"}

ScoreContents ==
  {StringContent("ReAct agent pattern implementation"),
   StringContent("We fixed the Docker auth issue using the Read tool"),
   StringContent("ReAct hooks optimization lives in src/hooks.ts"),
   StringContent("react hooks optimization, then docker auth"),
   ArrayContent(<<TextItem("reading the auth hooks"), ToolUseItem("Read")>>),
   NoContent}

ScoreInit ==
  /\ call \in {[fn |-> "calculateRelevanceScore",
                message |-> [type |-> t, message |-> c, cwd |-> "/home/u/proj"],
                query |-> q, projectPath |-> pp, done |-> FALSE, out |-> 0] :
                 t \in {"assistant", "tool_result"}, c \in ScoreContents,
                 q \in ScoreQueries, pp \in {"", "proj"}}
  /\ corpus = <<>>
  /\ disk = {}
  /\ cache = <<>>
  /\ req = NoRequest
  /\ resp = NoResponse
  /\ hist = NoHistory
  /\ sessions = <<>>

ApplyScore ==
  /\ call.fn = "calculateRelevanceScore"
  /\ ~call.done
  /\ call' = [call EXCEPT !.done = TRUE,
                          !.out = calculateRelevanceScore(call.message, call.query,
                                                          call.projectPath)]
  /\ UNCHANGED <<corpus, disk, cache, req, resp, hist, sessions>>

ScoreNext == ApplyScore

SpecScore == ScoreInit /\ [][ScoreNext]_vars

\* the query names a strict-core term and the Term Matcher finds none of them
StrictTermsAllAbsent(message, query) ==
  LET terms == strictCoreTermsOf(queryWordsOf(toLowerCase(query)))
  IN /\ Len(terms) > 0
     /\ \A i \in 1..Len(terms) :
          ~matchesTechTerm(extractContentFromMessage(message.message), terms[i])

\* C1: score(record, query) is exactly 0 whenever the query contains a
\* strict-core term and none of its strict-core terms matches the record's
\* content under the Term Matcher, whatever supporting or residual words match
\* and whichever of the phrase, coverage, tool-type, file-reference and
\* project-path bonuses would apply.
C1_StrictTermVeto ==
  (call.fn = "calculateRelevanceScore" /\ call.done
     /\ StrictTermsAllAbsent(call.message, call.query))
    => call.out = 0

\* The veto fired on a tool result whose text contains the whole query in lower
\* case, a supporting word, a file reference and the project path
C1_Witness ==
  /\ call.fn = "calculateRelevanceScore"
  /\ call.done
  /\ call.query = "react hooks optimization"
  /\ call.message.message = StringContent("ReAct hooks optimization lives in src/hooks.ts")
  /\ call.message.type = "tool_result"
  /\ call.projectPath = "proj"
  /\ matchesTechTerm(call.message.message.text, "hooks")
  /\ call.out = 0

-----------------------------------------------------------------------------
(* The re-ranker's scoring step applied to bounded inputs                  *)

RerankVocabulary == <<"docker", "error", "fix", "implement", "optimize", "tool">>

WordsUpTo(vocabulary, n) ==
  LET W[k \in 0..n] ==
        IF k = 0 THEN {""}
        ELSE W[k - 1] \cup
             {IF q = "" THEN vocabulary[i] ELSE q \o " " \o vocabulary[i] :
                q \in W[k - 1], i \in 1..Len(vocabulary)}
  IN W[n] \ {""}

RerankQueries == WordsUpTo(RerankVocabulary, MaxQueryWords)

NoContext == [toolsUsed |-> <<>>, filesReferenced |-> <<>>,
              errorPatterns |-> <<>>, codeSnippets |-> <<>>]

RerankContexts ==
  {NoContext,
   [toolsUsed |-> <<"Read", "Bash">>, filesReferenced |-> <<"src/auth.ts">>,
    errorPatterns |-> <<"error">>, codeSnippets |-> <<>>]}

RerankContents ==
  {"We fixed the Docker auth issue in src/auth.ts with a faster token refresh",
   "The planner loop fix retries the request and reports the error to the caller"}

RerankCandidates ==
  {[uuid |-> "m1", timestamp |-> ts, type |-> "assistant", content |-> content,
    sessionId |-> "s1", projectPath |-> "/home/u/p1", relevanceScore |-> score,
    context |-> context, origin |-> <<"-home-u-p1", "s1.jsonl", 1>>] :
     ts \in {NowHours - 2, NowHours - 72}, content \in RerankContents,
     score \in {0, 21}, context \in RerankContexts}

RerankInit ==
  /\ call \in {[fn |-> "finalScoreOf", msg |-> msg, query |-> query,
                analysis |-> analyzeQueryIntent(query), done |-> FALSE, out |-> RInt(0)] :
                 msg \in RerankCandidates, query \in RerankQueries}
  /\ corpus = <<>>
  /\ disk = {}
  /\ cache = <<>>
  /\ req = NoRequest
  /\ resp = NoResponse
  /\ hist = NoHistory
  /\ sessions = <<>>

ApplyRerank ==
  /\ call.fn = "finalScoreOf"
  /\ ~call.done
  /\ call' = [call EXCEPT !.done = TRUE,
                          !.out = finalScoreOf(call.msg, call.query, call.analysis, NowHours)]
  /\ UNCHANGED <<corpus, disk, cache, req, resp, hist, sessions>>

RerankNext == ApplyRerank

SpecRerank == RerankInit /\ [][RerankNext]_vars

\* C3: for a query of two or more significant words, a candidate whose base
\* relevance score is zero gets the final score zero, whatever coverage,
\* semantic boosts and recency apply, and so fails the minimum-score gate
C3_MultiWordVetoPersists ==
  (/\ call.fn = "finalScoreOf"
   /\ call.done
   /\ Len(significantWords(call.query)) >= 2
   /\ call.msg.relevanceScore = 0)
  => /\ call.out = RInt(0)
     /\ ~qualityGate(Scored(call.msg, call.out))

\* a zero-scored candidate that covers the whole query, matches a semantic
\* boost and is recent under an urgent query, re-ranked to zero
C3_Witness ==
  /\ call.fn = "finalScoreOf"
  /\ call.done
  /\ call.query = "fix error"
  /\ call.msg.relevanceScore = 0
  /\ includes(toLowerCase(call.msg.content), "fix")
  /\ includes(toLowerCase(call.msg.content), "error")
  /\ \E i \in 1..Len(call.analysis.semanticBoosts) :
        messageMatchesSemanticType(call.msg, call.analysis.semanticBoosts[i][1])
  /\ call.analysis.urgency = "high"
  /\ NowHours - call.msg.timestamp < 24
  /\ call.out = RInt(0)

-----------------------------------------------------------------------------
(* The corpus on disk, its faults, and the message cache                   *)

Line(uuid, timestamp, type, message) ==
  [json |-> "ok", uuid |-> uuid, timestamp |-> timestamp, type |-> type,
   message |-> message, sessionId |-> "session", cwd |-> "/home/u/work"]

MalformedLine ==
  [json |-> "malformed", uuid |-> "", timestamp |-> 0, type |-> "",
   message |-> NoContent, sessionId |-> "", cwd |-> ""]

RootFault == [kind |-> "root", dir |-> "", file |-> "", after |-> 0]

ListFault(dir) == [kind |-> "list", dir |-> dir, file |-> "", after |-> 0]

\* the read of the file fails once "after" lines were delivered (0: at open)
ReadFault(dir, file, after) == [kind |-> "read", dir |-> dir, file |-> file, after |-> after]

\* readdir of the projects directory, most recently modified first; [] when
\* it throws
findProjectDirectories(corpusV, diskV) ==
  IF RootFault \in diskV THEN <<>> ELSE [i \in 1..Len(corpusV) |-> corpusV[i].dir]

partitionOf(corpusV, dir) == corpusV[CHOOSE i \in 1..Len(corpusV) : corpusV[i].dir = dir]

\* readdir of one project, most recently modified first; [] when it throws
findJsonlFiles(corpusV, diskV, dir) ==
  IF ListFault(dir) \in diskV THEN <<>>
  ELSE CHOOSE out \in
         {[i \in 1..Len(files) |-> files[i].file] :
            files \in {partitionOf(corpusV, dir).files}} : TRUE

linesOf(corpusV, dir, file) ==
  CHOOSE out \in
    {files[CHOOSE i \in 1..Len(files) : files[i].file = file].lines :
       files \in {partitionOf(corpusV, dir).files}} : TRUE

\* a failed read delivers nothing
deliveredLines_noneOnFailure(corpusV, diskV, dir, file) ==
  IF \E g \in diskV : g.kind = "read" /\ g.dir = dir /\ g.file = file
  THEN 0
  ELSE Len(linesOf(corpusV, dir, file))

\* how many lines the read stream delivers before it ends or fails
deliveredLines(corpusV, diskV, dir, file) ==
  CHOOSE out \in
    {IF cuts = {} THEN n ELSE Min(n, CHOOSE a \in cuts : \A b \in cuts : a <= b) :
       n \in {Len(linesOf(corpusV, dir, file))},
       cuts \in {{f.after : f \in {g \in diskV :
                                     g.kind = "read" /\ g.dir = dir /\ g.file = file}}}} : TRUE

\* this.messageCache.size < 500
CacheCapacity == 500

cacheKeyOf(projectDir, file) == projectDir \o "/" \o file

cacheHas(cacheV, key) == \E i \in 1..Len(cacheV) : cacheV[i].key = key

cacheGet(cacheV, key) == cacheV[CHOOSE i \in 1..Len(cacheV) : cacheV[i].key = key].messages

\* a delete that removes nothing
cacheDelete_keeps(cacheV, key) == cacheV

cacheDelete(cacheV, key) == SelectSeq(cacheV, LAMBDA e : e.key # key)

\* Map.prototype.set: a present key keeps its place, a new key goes last
cacheSet(cacheV, key, messages) ==
  IF cacheHas(cacheV, key)
  THEN [i \in 1..Len(cacheV) |->
          IF cacheV[i].key = key THEN [key |-> key, messages |-> messages] ELSE cacheV[i]]
  ELSE Append(cacheV, [key |-> key, messages |-> messages])

\* the positive infinity of the reduce, as a score
Infinity == <<1, 0>>

\* the reduce of processJsonlFile, left to right: an entry replaces the
\* running minimum when its average is below (min.avgScore || Infinity); an
\* empty entry averages NaN and is never below anything.  The entries are
\* folded in blocks of ReduceBlock so that the evaluation stays shallow.
ReduceBlock == 25

leastValuable(cacheV) ==
  LET sumOf(msgs) ==
        LET S[i \in 0..Len(msgs)] == IF i = 0 THEN 0 ELSE S[i - 1] + msgs[i].relevanceScore
        IN S[Len(msgs)]
      \* avg[i]: <<sum, count>> of entry i
      step(min, key, avg) ==
        IF /\ avg[2] > 0
           /\ RLess(Rat(avg[1], avg[2]),
                    IF min.avgScore[1] = 0 THEN Infinity ELSE min.avgScore)
        THEN [key |-> key, avgScore |-> Rat(avg[1], avg[2])]
        ELSE min
      fold(start, from, to, keys, avgs) ==
        LET L[i \in (from - 1)..to] ==
              IF i = from - 1 THEN start
              ELSE CHOOSE out \in {step(min, keys[i], avgs[i]) : min \in {L[i - 1]}} : TRUE
        IN L[to]
      blocks(n, keys, avgs) ==
        LET B[b \in 0..CeilDiv(n, ReduceBlock)] ==
              IF b = 0 THEN [key |-> "", avgScore |-> Infinity]
              ELSE CHOOSE out \in
                     {fold(min, (b - 1) * ReduceBlock + 1, Min(n, b * ReduceBlock),
                           keys, avgs) : min \in {B[b - 1]}} : TRUE
        IN B[CeilDiv(n, ReduceBlock)]
  IN CHOOSE out \in
       {blocks(Len(keys), keys, avgs) :
          keys \in {[i \in 1..Len(cacheV) |-> cacheV[i].key]},
          avgs \in {[i \in 1..Len(cacheV) |->
                      <<sumOf(cacheV[i].messages), Len(cacheV[i].messages)>>]}} : TRUE

\* processJsonlFile after the parse has settled (one synchronous block): the
\* cache it leaves
cacheAfterParse(cacheV, cacheKey, messages) ==
  IF Len(cacheV) < CacheCapacity THEN cacheSet(cacheV, cacheKey, messages)
  ELSE IF \E i \in 1..Len(messages) : messages[i].relevanceScore > 8
       THEN CHOOSE out \in
              {IF victim.key # ""
               THEN cacheSet(cacheDelete(cacheV, victim.key), cacheKey, messages)
               ELSE cacheV : victim \in {leastValuable(cacheV)}} : TRUE
       ELSE cacheV

\* the messages the call returns, the cache it leaves and the records its
\* parse pushed (none on a hit)
processJsonlFile(cacheV, corpusV, diskV, projectDir, file, query, timeframe) ==
  LET missed(cacheKey) ==
        CHOOSE out \in
          {[messages |-> messages, cache |-> cacheAfterParse(cacheV, cacheKey, messages),
            parsed |-> messages] :
             messages \in
               {parseJsonlFile(projectDir, file, linesOf(corpusV, projectDir, file),
                               deliveredLines(corpusV, diskV, projectDir, file),
                               query, timeframe)}} : TRUE
  IN CHOOSE out \in
       {IF cacheHas(cacheV, cacheKey)
        THEN [messages |-> cacheGet(cacheV, cacheKey), cache |-> cacheV, parsed |-> <<>>]
        ELSE missed(cacheKey) : cacheKey \in {cacheKeyOf(projectDir, file)}} : TRUE

\* this.sessions of a parser whose parses filled the cache, entry by entry:
\* what updateSessionInfo leaves after the records of the entries, in order
sessionsOfCache(cacheV) ==
  LET at == UNION {{<<k, i>> : i \in 1..Len(cacheV[k].messages)} : k \in 1..Len(cacheV)}
      before(p, q) == p[1] < q[1] \/ (p[1] = q[1] /\ p[2] < q[2])
      record(p) == cacheV[p[1]].messages[p[2]]
      session(id, mine, times) ==
        [sessionId |-> id,
         projectPath |-> record(CHOOSE p \in mine : \A q \in mine : p = q \/ before(p, q)).projectPath,
         startTime |-> CHOOSE t \in times : \A u \in times : t <= u,
         endTime |-> record(CHOOSE p \in mine : \A q \in mine : p = q \/ before(q, p)).timestamp,
         messageCount |-> Cardinality(mine)]
      built(places, ids) ==
        LET firstOf == [id \in ids |->
                          CHOOSE p \in places :
                            /\ record(p).sessionId = id
                            /\ \A q \in places :
                                 record(q).sessionId = id => (p = q \/ before(p, q))]
            sessionOf(id) ==
              CHOOSE out \in
                {session(id, mine, {record(p).timestamp : p \in mine}) :
                   mine \in {{p \in places : record(p).sessionId = id}}} : TRUE
        IN [r \in 1..Cardinality(ids) |->
              sessionOf(CHOOSE x \in ids :
                          Cardinality({j \in ids : before(firstOf[j], firstOf[x])}) = r - 1)]
  IN CHOOSE out \in
       {built(places, {record(p).sessionId : p \in places}) : places \in {at}} : TRUE
-----------------------------------------------------------------------------
(* search: the steps of one search                                         *)

\* one processProjectFocused call: where it stands and what it has collected
NewTask(projectDir) ==
  [dir |-> projectDir, pc |-> "list", files |-> <<>>, next |-> 1, messages |-> <<>>]

targetDirsOf(corpusV, diskV, projectFilter, limit) ==
  CHOOSE out \in
    {IF projectFilter # ""
     THEN SelectSeq(expandedDirs, LAMBDA dir : includes(dir, projectFilter))
     ELSE SubSeq(expandedDirs, 1, Min(Len(expandedDirs), Max(8, CeilDiv(limit, 2)))) :
       expandedDirs \in {findProjectDirectories(corpusV, diskV)}} : TRUE

\* Math.ceil((limit * 2) / targetDirs.length); with no directory the
\* quotient is infinite and no task ever reads it
targetPerProjectOf(limit, dirs) == IF dirs = 0 THEN 0 ELSE CeilDiv(limit * 2, dirs)

\* findJsonlFiles and the choice of the priority files
listStep(task, corpusV, diskV) ==
  CHOOSE out \in
    {[task EXCEPT !.files = priorityFiles,
                  !.pc = IF Len(priorityFiles) = 0 THEN "done" ELSE "scan"] :
       priorityFiles \in
         {CHOOSE x \in {SubSeq(jsonlFiles, 1, Min(4, Len(jsonlFiles))) :
                          jsonlFiles \in {findJsonlFiles(corpusV, diskV, task.dir)}} : TRUE}} : TRUE

\* one turn of the loop over the priority files: the task and cache after
\* it, and the records its parse pushed
scanStep(task, cacheV, corpusV, diskV, query, timeframe, analysis, targetPerProject) ==
  LET relevantOf(useful) ==
        SubSeq(useful, 1, Min(CeilDiv(targetPerProject, Len(task.files)), Len(useful)))
      after(got, messages) ==
        [task |-> [task EXCEPT !.messages = messages,
                               !.next = task.next + 1,
                               !.pc = IF \/ Len(messages) >= targetPerProject
                                         \/ task.next = Len(task.files)
                                      THEN "done" ELSE "scan"],
         cache |-> got.cache,
         parsed |-> got.parsed]
      collected(got) ==
        CHOOSE out \in
          {after(got, messages) :
             messages \in
               {CHOOSE x \in
                  {task.messages \o relevantOf(useful) :
                     useful \in
                       {SelectSeq(got.messages,
                                  LAMBDA m : /\ m.relevanceScore >= 1
                                             /\ matchesQueryIntent(m, analysis))}} : TRUE}} : TRUE
  IN CHOOSE out \in
       {collected(got) :
          got \in {processJsonlFile(cacheV, corpusV, diskV, task.dir, task.files[task.next],
                                    query, timeframe)}} : TRUE

\* the aggregation loop of gatherRelevantCandidates, in the order of the dirs
aggregate(tasks, query, analysis, targetCount) ==
  LET A[i \in 0..Len(tasks)] ==
        IF i = 0 THEN <<>>
        ELSE CHOOSE out \in
               {IF Len(prev) >= targetCount THEN prev
                ELSE prev \o SelectSeq(tasks[i].messages,
                                       LAMBDA m : isHighlyRelevant(m, query, analysis)) :
                  prev \in {A[i - 1]}} : TRUE
  IN CHOOSE out \in {A[Len(tasks)] : dummy \in {0}} : TRUE

\* what performOptimizedSearch returns once every task has settled
searchOutcome(tasks, query, limit) ==
  LET outcome(analysis, candidates) ==
        [messages |-> SelectSeq(selectTopRelevantResults(candidates, query, analysis,
                                                         limit, NowHours),
                                qualityGate),
         totalResults |-> Len(candidates)]
      ranked(analysis) ==
        CHOOSE out \in
          {outcome(analysis, candidates) :
             candidates \in {aggregate(tasks, query, analysis, limit * 2)}} : TRUE
  IN CHOOSE out \in {ranked(analysis) : analysis \in {analyzeQueryIntent(query)}} : TRUE

\* createIntelligentSignature sorts context.toolsUsed in place, and the
\* context object is shared with the cached message the candidate came from
sortedInPlace(cacheV, candidates) ==
  LET sorted(origins) ==
        [e \in 1..Len(cacheV) |->
           [key |-> cacheV[e].key,
            messages |->
              [i \in 1..Len(cacheV[e].messages) |->
                 IF cacheV[e].messages[i].origin \in origins
                 THEN [cacheV[e].messages[i] EXCEPT
                         !.context.toolsUsed =
                           sortStrings(cacheV[e].messages[i].context.toolsUsed)]
                 ELSE cacheV[e].messages[i]]]]
  IN CHOOSE out \in
       {sorted(origins) :
          origins \in {{candidates[i].origin : i \in 1..Len(candidates)}}} : TRUE

\* the whole search run to completion with the project tasks one after the
\* other: the result and the cache it leaves
searchConversations(corpusV, diskV, cacheV, query, projectFilter, timeframe, limit) ==
  LET \* one processProjectFocused call: the listing, then at most 4 files
      run(start, cacheNow, analysis, targetPerProject) ==
        LET R[k \in 0..(1 + 4)] ==
              IF k = 0 THEN [task |-> start, cache |-> cacheNow]
              ELSE CHOOSE out \in
                     {IF prev.task.pc = "done" THEN prev
                      ELSE IF prev.task.pc = "list"
                           THEN [task |-> listStep(prev.task, corpusV, diskV),
                                 cache |-> prev.cache]
                           ELSE scanStep(prev.task, prev.cache, corpusV, diskV, query,
                                         timeframe, analysis, targetPerProject) :
                        prev \in {R[k - 1]}} : TRUE
        IN R[1 + 4]
      gather(targetDirs, analysis) ==
        LET G[i \in 0..Len(targetDirs)] ==
              IF i = 0 THEN [tasks |-> <<>>, cache |-> cacheV]
              ELSE CHOOSE out \in
                     {[tasks |-> Append(prev.tasks, after.task), cache |-> after.cache] :
                        prev \in {G[i - 1]},
                        after \in {run(NewTask(targetDirs[i]), G[i - 1].cache, analysis,
                                       targetPerProjectOf(limit, Len(targetDirs)))}} : TRUE
        IN G[Len(targetDirs)]
      result(gathered, analysis) ==
        CHOOSE out \in
          {[messages |-> outcome.messages, totalResults |-> outcome.totalResults,
            cache |-> sortedInPlace(gathered.cache,
                                    aggregate(gathered.tasks, query, analysis, limit * 2))] :
             outcome \in {searchOutcome(gathered.tasks, query, limit)}} : TRUE
      searched(targetDirs, analysis) ==
        CHOOSE out \in
          {result(gathered, analysis) : gathered \in {gather(targetDirs, analysis)}} : TRUE
  IN IF Len(query) < 3 THEN [messages |-> <<>>, totalResults |-> 0, cache |-> cacheV]
     ELSE CHOOSE out \in
            {searched(targetDirs, analysis) :
               targetDirs \in {targetDirsOf(corpusV, diskV, projectFilter, limit)},
               analysis \in {analyzeQueryIntent(query)}} : TRUE

-----------------------------------------------------------------------------
(* The engine over a small corpus                                          *)

DirP1 == "-home-u-p1"

DirP2 == "-home-u-p2"

LineDocker ==
  Line("m-docker", NowHours - 2, "assistant",
       ArrayContent(<<TextItem("We fixed the Docker auth issue in src/auth.ts and login works"),
                      ToolUseItem("Read")>>))

LineHooks ==
  Line("m-hooks", NowHours - 3, "assistant",
       ArrayContent(<<TextItem("react hooks optimization with useMemo made the list faster"),
                      ToolUseItem("Edit")>>))

LineReAct ==
  Line("m-react", NowHours - 72, "assistant",
       ArrayContent(<<TextItem("ReAct agent pattern implementation notes for the planner"),
                      ToolUseItem("Bash")>>))

LineToken ==
  Line("m-token", NowHours - 1, "assistant",
       ArrayContent(<<TextItem("docker auth token rotation now runs nightly on the host"),
                      ToolUseItem("Bash")>>))

\* two projects, most recently modified first, and their session files
SmallCorpus ==
  << [dir |-> DirP1, files |-> << [file |-> "s1.jsonl", lines |-> <<MalformedLine, LineDocker>>] >>],
     [dir |-> DirP2, files |-> << [file |-> "s2.jsonl", lines |-> <<LineHooks>>],
                                  [file |-> "s3.jsonl", lines |-> <<LineReAct>>] >>] >>

\* the searches a caller makes: <<query, timeframe>>, timeframe "" when absent
Requests ==
  {<<"docker auth", "">>, <<"docker auth", "today">>, <<"react hooks optimization", "">>,
   <<"ab ", "">>, <<"ab", "">>}

\* the default limit of searchConversations
DefaultLimit == 15

\* lines appended to the corpus in one behaviour
MaxAppends == 1

AppendPool == {LineToken}

totalLines(corpusV) ==
  LET perDir(files) ==
        LET F[i \in 0..Len(files)] == IF i = 0 THEN 0 ELSE F[i - 1] + Len(files[i].lines)
        IN F[Len(files)]
      T[i \in 0..Len(corpusV)] == IF i = 0 THEN 0 ELSE T[i - 1] + perDir(corpusV[i].files)
  IN T[Len(corpusV)]

Init ==
  /\ call = Idle
  /\ corpus = SmallCorpus
  /\ disk = {}
  /\ cache = <<>>
  /\ req = NoRequest
  /\ resp = NoResponse
  /\ hist = NoHistory
  /\ sessions = <<>>

\* searchConversations up to the fan-out of gatherRelevantCandidates; a
\* query shorter than 3 characters is answered at once
StartSearch(query, projectFilter, timeframe, limit) ==
  /\ req.pc = "idle"
  /\ IF Len(query) < 3
     THEN /\ resp' = [op |-> "search", query |-> query, projectFilter |-> projectFilter,
                      timeframe |-> timeframe, limit |-> limit,
                      messages |-> <<>>, totalResults |-> 0]
          /\ UNCHANGED <<req, hist>>
     ELSE /\ resp' = NoResponse
          /\ req' = [pc |-> "gather", query |-> query, projectFilter |-> projectFilter,
                     timeframe |-> timeframe, limit |-> limit,
                     tasks |-> CHOOSE out \in
                                 {[i \in 1..Len(targetDirs) |-> NewTask(targetDirs[i])] :
                                    targetDirs \in {targetDirsOf(corpus, disk, projectFilter,
                                                                 limit)}} : TRUE]
          /\ hist' = [hist EXCEPT
                        !.first = IF hist.first = <<"", "">> /\ hist.uniform
                                  THEN <<query, timeframe>> ELSE hist.first,
                        !.uniform = /\ hist.uniform
                                    /\ hist.first \in {<<"", "">>, <<query, timeframe>>},
                        !.cache0 = cache]
  /\ UNCHANGED <<call, corpus, disk, cache, sessions>>

\* a project task lists its session files
ListFiles(t) ==
  /\ req.pc = "gather"
  /\ t \in 1..Len(req.tasks)
  /\ req.tasks[t].pc = "list"
  /\ req' = [req EXCEPT !.tasks[t] = listStep(req.tasks[t], corpus, disk)]
  /\ UNCHANGED <<call, corpus, disk, cache, resp, hist, sessions>>

\* a project task takes its next file through processJsonlFile
ScanFile(t) ==
  /\ req.pc = "gather"
  /\ t \in 1..Len(req.tasks)
  /\ req.tasks[t].pc = "scan"
  /\ \E after \in {scanStep(req.tasks[t], cache, corpus, disk, req.query, req.timeframe,
                            analyzeQueryIntent(req.query),
                            targetPerProjectOf(req.limit, Len(req.tasks)))} :
       /\ req' = [req EXCEPT !.tasks[t] = after.task]
       /\ cache' = after.cache
       /\ sessions' = sessionsAfter(sessions, after.parsed)
  /\ UNCHANGED <<call, corpus, disk, resp, hist>>

\* every task has settled: aggregation, re-ranking, quality gate, return
FinishSearch ==
  /\ req.pc = "gather"
  /\ \A t \in 1..Len(req.tasks) : req.tasks[t].pc = "done"
  /\ \E outcome \in {searchOutcome(req.tasks, req.query, req.limit)} :
       resp' = [op |-> "search", query |-> req.query, projectFilter |-> req.projectFilter,
                timeframe |-> req.timeframe, limit |-> req.limit,
                messages |-> outcome.messages, totalResults |-> outcome.totalResults]
  /\ cache' = sortedInPlace(cache, aggregate(req.tasks, req.query,
                                             analyzeQueryIntent(req.query), req.limit * 2))
  /\ req' = NoRequest
  /\ UNCHANGED <<call, corpus, disk, hist, sessions>>

\* Claude Code appends a line to a session file, which becomes the most
\* recently modified file of its project; the response the caller holds was
\* computed before the change and is set aside
AppendLine(p, f, line) ==
  /\ req.pc = "idle"
  /\ totalLines(corpus) < totalLines(SmallCorpus) + MaxAppends
  /\ p \in 1..Len(corpus)
  /\ f \in 1..Len(corpus[p].files)
  /\ LET files == corpus[p].files
         grown == [file |-> files[f].file, lines |-> Append(files[f].lines, line)]
     IN corpus' = [corpus EXCEPT ![p].files =
                     <<grown>> \o SubSeq(files, 1, f - 1) \o SubSeq(files, f + 1, Len(files))]
  /\ hist' = [hist EXCEPT !.changed = TRUE]
  /\ resp' = NoResponse
  /\ UNCHANGED <<call, disk, cache, req, sessions>>

Next ==
  \/ \E request \in Requests : StartSearch(request[1], "", request[2], DefaultLimit)
  \/ \E t \in 1..2 : ListFiles(t)
  \/ \E t \in 1..2 : ScanFile(t)
  \/ FinishSearch
  \/ \E p \in 1..2, f \in 1..2, line \in AppendPool : AppendLine(p, f, line)

Spec == Init /\ [][Next]_vars

\* the ranked list as its caller sees it: which records, with which scores
ResultView(messages) ==
  [i \in 1..Len(messages) |-> <<messages[i].uuid, messages[i].finalScore>>]

Finished == req.pc = "idle" /\ resp.op = "search"

\* the result of the same call on a freshly constructed engine
FreshResult ==
  searchConversations(corpus, {}, <<>>, resp.query, resp.projectFilter,
                      resp.timeframe, resp.limit)

-----------------------------------------------------------------------------
(* The engine: cache transparency, veto, freshness, short queries          *)

\* the query names a strict-core term and the Term Matcher finds none of
\* them in the content of a record
NoStrictTermMatches(content, query) ==
  \E terms \in {strictCoreTermsOf(queryWordsOf(toLowerCase(query)))} :
    /\ Len(terms) > 0
    /\ \A i \in 1..Len(terms) : ~matchesTechTerm(content, terms[i])

Returned(uuid) == \E i \in 1..Len(resp.messages) : resp.messages[i].uuid = uuid

\* C4: over an unchanged corpus every search call returns the ranked list
\* (same records, same scores, same order) that the same call returns from a
\* freshly started engine with an empty cache, whatever the earlier calls
\* asked for.
C4_CacheTransparent ==
  (Finished /\ ~hist.changed)
    => /\ ResultView(resp.messages) = ResultView(FreshResult.messages)
       /\ resp.totalResults = FreshResult.totalResults

\* C5: whatever calls preceded it, a search whose query names a strict-core
\* term returns no record in which none of the query's strict-core terms
\* matches under the Term Matcher.
C5_VetoedNeverReturned ==
  Finished
    => \A i \in 1..Len(resp.messages) :
         ~NoStrictTermMatches(resp.messages[i].content, resp.query)

\* C6: after a corpus file has changed, a search is computed from the file's
\* current contents, here for callers that always ask the same question: its
\* ranked list is the one a freshly started engine computes from the corpus
\* as it now is.
C6_FreshAfterChange ==
  (Finished /\ hist.changed /\ hist.uniform)
    => /\ ResultView(resp.messages) = ResultView(FreshResult.messages)
       /\ resp.totalResults = FreshResult.totalResults

\* C8: a search whose trimmed query is shorter than 3 characters returns no
\* record and the total count 0.
C8_ShortQueryEmpty ==
  (Finished /\ Len(trim(resp.query)) < 3)
    => (resp.messages = <<>> /\ resp.totalResults = 0)

-----------------------------------------------------------------------------
(* The engine on a disk that fails                                         *)

\* the corpus once the token line has been appended to s1.jsonl
GrownCorpus ==
  << [dir |-> DirP1,
      files |-> << [file |-> "s1.jsonl",
                    lines |-> <<MalformedLine, LineDocker, LineToken>>] >>],
     [dir |-> DirP2, files |-> << [file |-> "s2.jsonl", lines |-> <<LineHooks>>],
                                  [file |-> "s3.jsonl", lines |-> <<LineReAct>>] >>] >>

\* failures in one behaviour
MaxFaults == 1

\* the failures the disk can develop: the projects directory or a project
\* cannot be listed, a file cannot be opened, a read breaks off part-way
FaultPool ==
  {RootFault, ListFault(DirP1), ListFault(DirP2),
   ReadFault(DirP1, "s1.jsonl", 0), ReadFault(DirP1, "s1.jsonl", 2),
   ReadFault(DirP2, "s2.jsonl", 0)}

FaultyRequests == {<<"docker auth", "">>, <<"react hooks optimization", "">>}

FaultyInit ==
  /\ call = Idle
  /\ corpus = GrownCorpus
  /\ disk = {}
  /\ cache = <<>>
  /\ req = NoRequest
  /\ resp = NoResponse
  /\ hist = NoHistory
  /\ sessions = <<>>

\* the disk develops a failure between two searches
Break(fault) ==
  /\ req.pc = "idle"
  /\ Cardinality(disk) < MaxFaults
  /\ fault \notin disk
  /\ disk' = disk \cup {fault}
  /\ resp' = NoResponse
  /\ UNCHANGED <<call, corpus, cache, req, hist, sessions>>

FaultyNext ==
  \/ \E request \in FaultyRequests : StartSearch(request[1], "", request[2], DefaultLimit)
  \/ \E t \in 1..2 : ListFiles(t)
  \/ \E t \in 1..2 : ScanFile(t)
  \/ FinishSearch
  \/ \E fault \in FaultPool : Break(fault)

SpecFaulty == FaultyInit /\ [][FaultyNext]_vars

\* the corpus as the failures leave it readable, what was read before a
\* failure included: an unlistable projects directory holds nothing, an
\* unlistable project holds no file, a file ends where its read breaks off
ReadablePart(corpusV, diskV) ==
  LET readTo(dir, file, lines) ==
        LET cuts == {g.after : g \in {h \in diskV :
                                        h.kind = "read" /\ h.dir = dir /\ h.file = file}}
        IN SelectSeq([i \in 1..Len(lines) |-> <<i, lines[i]>>],
                     LAMBDA l : \A cut \in cuts : l[1] <= cut)
  IN IF RootFault \in diskV THEN <<>>
     ELSE [p \in 1..Len(corpusV) |->
             [dir |-> corpusV[p].dir,
              files |->
                IF ListFault(corpusV[p].dir) \in diskV THEN <<>>
                ELSE [f \in 1..Len(corpusV[p].files) |->
                        [file |-> corpusV[p].files[f].file,
                         lines |->
                           CHOOSE out \in
                             {[i \in 1..Len(kept) |-> kept[i][2]] :
                                kept \in {readTo(corpusV[p].dir, corpusV[p].files[f].file,
                                                 corpusV[p].files[f].lines)}} : TRUE]]]]

\* the corpus with every failed source empty: a file whose read fails at any
\* point holds no line
WithoutFailed(corpusV, diskV) ==
  IF RootFault \in diskV THEN <<>>
  ELSE [p \in 1..Len(corpusV) |->
          [dir |-> corpusV[p].dir,
           files |->
             IF ListFault(corpusV[p].dir) \in diskV THEN <<>>
             ELSE [f \in 1..Len(corpusV[p].files) |->
                     [file |-> corpusV[p].files[f].file,
                      lines |->
                        IF \E g \in diskV : /\ g.kind = "read"
                                            /\ g.dir = corpusV[p].dir
                                            /\ g.file = corpusV[p].files[f].file
                        THEN <<>>
                        ELSE corpusV[p].files[f].lines]]]]

\* the search of the response, run on a healthy disk over the given corpus
\* from the cache the search started with
SameSearchOver(corpusV) ==
  searchConversations(corpusV, {}, hist.cache0, resp.query, resp.projectFilter,
                      resp.timeframe, resp.limit)

-----------------------------------------------------------------------------
(* The engine with a full cache                                            *)

\* a project whose sessions were searched long ago
DirOld == "-home-u-old"

OldQuery == "webpack config build"

LineOld ==
  Line("m-old", NowHours - 200, "tool_result",
       StringContent("webpack config build for src/app.ts finished without warnings"))

\* the decimal numeral of k
Numeral(k) ==
  LET N[n \in 0..999] ==
        IF n < 10 THEN Char(Digits, n + 1) ELSE N[n \div 10] \o Char(Digits, (n % 10) + 1)
  IN N[k]

OldFile(k) == "old" \o Numeral(k) \o ".jsonl"

\* what the cache holds of one old session
OldMessages == parseJsonlFile(DirOld, "old.jsonl", <<LineOld>>, 1, OldQuery, "")

\* the cache after a long service: the sessions of the old project, one short
\* of the capacity, then s1.jsonl as the search for "docker auth" parsed it
FullCache ==
  [k \in 1..(CacheCapacity - 1) |->
     [key |-> cacheKeyOf(DirOld, OldFile(k)), messages |-> OldMessages]]
    \o << [key |-> cacheKeyOf(DirP1, "s1.jsonl"),
           messages |-> parseJsonlFile(DirP1, "s1.jsonl", linesOf(SmallCorpus, DirP1, "s1.jsonl"),
                                       2, "docker auth", "")] >>

\* evictions in one behaviour
MaxEvictions == 2

\* how many entries of FullCache the cache has lost
Evicted(cacheV) ==
  Cardinality({k \in 1..Len(FullCache) : ~cacheHas(cacheV, FullCache[k].key)})

FullRequests == {<<"docker auth", "">>, <<"react hooks optimization", "">>}

\* the session aggregates of the parser that filled the cache
FullSessions == sessionsOfCache(FullCache)

FullInit ==
  /\ call = Idle
  /\ corpus = SmallCorpus
  /\ disk = {}
  /\ cache = FullCache
  /\ req = NoRequest
  /\ resp = NoResponse
  /\ hist = NoHistory
  /\ sessions = FullSessions

\* records parsed in one behaviour
MaxParsed == 4

\* the records the parser has pushed so far
SessionRecords(sessionsV) ==
  LET S[n \in 0..Len(sessionsV)] ==
        IF n = 0 THEN 0 ELSE S[n - 1] + sessionsV[n].messageCount
  IN S[Len(sessionsV)]

StartFull(query, timeframe) ==
  /\ Evicted(cache) < MaxEvictions
  /\ SessionRecords(sessions) < SessionRecords(FullSessions) + MaxParsed
  /\ StartSearch(query, "", timeframe, DefaultLimit)

FullNext ==
  \/ \E request \in FullRequests : StartFull(request[1], request[2])
  \/ \E t \in 1..2 : ListFiles(t)
  \/ \E t \in 1..2 : ScanFile(t)
  \/ FinishSearch

SpecFull == FullInit /\ [][FullNext]_vars

\* C10: within one search over a fixed corpus and from fixed cache contents,
\* the ranked list is the same for every order in which the project tasks
\* take their steps: it is the list the search returns when the tasks run one
\* after the other.
C10_OrderIndependent ==
  Finished
    => \E same \in {SameSearchOver(corpus)} :
         ResultView(resp.messages) = ResultView(same.messages)

-----------------------------------------------------------------------------
(* The public entry points: where an exception can arise and where it is   *)
(* caught                                                                  *)

\* The operations of the runtime that can throw: the dynamic import of a
\* database package, the probes of the Claude Desktop directories, the
\* listing of the projects directory, of a project and of the plans
\* directory, the read of a session file, the parse of one of its lines, the
\* read of a plan file, the reads of the Desktop stores
ThrowPoints ==
  {"import", "desktopProbe", "readdirRoot", "readdirProject", "readFile", "parseLine",
   "readdirPlans", "readPlan", "desktopStore"}

\* A step of a method body: [k, point, body]
\* an operation that throws when its point fails
Raise(point) == [k |-> "raise", point |-> point, body |-> <<>>]

\* try { body } catch { rethrow }
Rethrow(body) == [k |-> "rethrow", point |-> "", body |-> body]

\* a catch block that throws on
Try_uncaught(body) == [k |-> "rethrow", point |-> "", body |-> body]

\* try { body } catch { log; return the empty value }
Try(body) == [k |-> "try", point |-> "", body |-> body]

\* await Promise.allSettled(items.map(async () => body))
Settled(body) == [k |-> "settled", point |-> "", body |-> body]

\* whether an exception leaves the steps when the points in failing throw
RECURSIVE escapes(_, _)
escapes(steps, failing) ==
  \E i \in 1..Len(steps) :
    CASE steps[i].k = "raise" -> steps[i].point \in failing
      [] steps[i].k = "rethrow" -> escapes(steps[i].body, failing)
      [] steps[i].k = "try" -> FALSE
      [] steps[i].k = "settled" -> FALSE

\* UniversalHistorySearchEngine.initialize: detectLevelDB, detectClaudeDesktop
\* and, with Claude Desktop installed, the two path probes
initialize(desktop) ==
  <<Try(<<Raise("import")>>), Try(<<Raise("desktopProbe")>>)>>
    \o (IF desktop THEN <<Try(<<Raise("desktopProbe")>>), Try(<<Raise("desktopProbe")>>)>>
        ELSE <<>>)

findProjectDirectoriesSteps == Try(<<Raise("readdirRoot")>>)

findJsonlFilesSteps == Try(<<Raise("readdirProject")>>)

findPlanFilesSteps == Try(<<Raise("readdirPlans")>>)

parseJsonlFileSteps == Try(<<Raise("readFile"), Try(<<Raise("parseLine")>>)>>)

\* HistorySearchEngine.searchConversations > performOptimizedSearch >
\* gatherRelevantCandidates > processProjectFocused > processJsonlFile
searchConversationsSteps ==
  Try(<<Rethrow(<<findProjectDirectoriesSteps,
                  Settled(<<Try(<<findJsonlFilesSteps, parseJsonlFileSteps>>)>>)>>)>>)

\* findFileContext, getErrorSolutions, getToolPatterns and getRecentSessions
\* of HistorySearchEngine share this shape
settledScanSteps ==
  Try(<<findProjectDirectoriesSteps,
        Settled(<<findJsonlFilesSteps, Settled(<<parseJsonlFileSteps>>)>>)>>)

findSimilarQueriesSteps ==
  Try(<<findProjectDirectoriesSteps, findJsonlFilesSteps, parseJsonlFileSteps>>)

getSessionMessagesSteps == Try(<<parseJsonlFileSteps>>)

searchPlansSteps == Try(<<findPlanFilesSteps, Settled(<<Raise("readPlan")>>)>>)

\* searchClaudeDesktopConversations, reached with Claude Desktop installed
desktopStage(desktop) == IF desktop THEN <<Try(<<Raise("desktopStore")>>)>> ELSE <<>>

EntryPoints ==
  {"search", "findSimilar", "findFileContext", "getErrorSolutions", "getToolPatterns",
   "listRecentSessions", "summarizeSession", "searchPlans"}

\* the body of the method of UniversalHistorySearchEngine behind an entry point
EntrySteps(op, desktop) ==
  CASE op = "search" ->
         initialize(desktop) \o <<searchConversationsSteps>> \o desktopStage(desktop)
    [] op = "findSimilar" ->
         initialize(desktop) \o <<findSimilarQueriesSteps>> \o desktopStage(desktop)
    [] op = "findFileContext" ->
         initialize(desktop) \o <<settledScanSteps>> \o desktopStage(desktop)
    [] op = "getErrorSolutions" ->
         initialize(desktop) \o <<settledScanSteps>> \o desktopStage(desktop)
    [] op = "getToolPatterns" -> initialize(desktop) \o <<settledScanSteps>>
    [] op = "listRecentSessions" -> initialize(desktop) \o <<settledScanSteps>>
    [] op = "summarizeSession" ->
         initialize(desktop) \o <<settledScanSteps, getSessionMessagesSteps>>
    [] op = "searchPlans" -> <<searchPlansSteps>>

EntryInit ==
  /\ call \in {[fn |-> "entry", op |-> op, desktop |-> desktop, failing |-> failing,
                done |-> FALSE, out |-> ""] :
                 op \in EntryPoints, desktop \in BOOLEAN, failing \in SUBSET ThrowPoints}
  /\ corpus = <<>>
  /\ disk = {}
  /\ cache = <<>>
  /\ req = NoRequest
  /\ resp = NoResponse
  /\ hist = NoHistory
  /\ sessions = <<>>

\* the call of an entry point: the caller gets the result envelope
\* {source, results, enhanced}, or the exception that left the method
ApplyEntry ==
  /\ call.fn = "entry"
  /\ ~call.done
  /\ call' = [call EXCEPT
                !.done = TRUE,
                !.out = IF escapes(EntrySteps(call.op, call.desktop), call.failing)
                        THEN "exception" ELSE "envelope"]
  /\ UNCHANGED <<corpus, disk, cache, req, resp, hist, sessions>>

EntryNext == ApplyEntry

SpecEntry == EntryInit /\ [][EntryNext]_vars

\* C7: every public query entry point hands its caller a result envelope,
\* never an exception, whichever operations of the file system, of the parser
\* and of the Desktop stores fail.
C7_NoExceptionEscapes ==
  (call.fn = "entry" /\ call.done) => call.out = "envelope"

\* the session summary returned its envelope although every operation failed
C7_Witness ==
  /\ call.fn = "entry"
  /\ call.done
  /\ call.op = "summarizeSession"
  /\ call.failing = ThrowPoints
  /\ call.out = "envelope"

-----------------------------------------------------------------------------
(* The message cache under concurrent processJsonlFile calls               *)

\* s3.jsonl as a search for "docker auth" parsed it before s2.jsonl existed:
\* one record, relevanceScore 0
ZeroEntry ==
  [key |-> cacheKeyOf(DirP2, "s3.jsonl"),
   messages |-> parseJsonlFile(DirP2, "s3.jsonl", linesOf(SmallCorpus, DirP2, "s3.jsonl"),
                               1, "docker auth", "")]

\* a session file of the old project that held no parsable line
EmptyEntry ==
  [key |-> cacheKeyOf(DirOld, "broken.jsonl"),
   messages |-> parseJsonlFile(DirOld, "broken.jsonl", <<MalformedLine>>, 1, OldQuery, "")]

OldEntries(n) ==
  [k \in 1..n |-> [key |-> cacheKeyOf(DirOld, OldFile(k)), messages |-> OldMessages]]

\* the caches the harness starts from: the entries of earlier searches in
\* the order of their insertion, one or two short of the capacity
CacheStarts ==
  {head \o OldEntries(CacheCapacity - short - Len(head)) :
     head \in {<<>>, <<EmptyEntry, ZeroEntry>>},
     short \in {1, 2}}

\* processJsonlFile calls in one behaviour
MaxScans == 3

ScanFiles == {<<DirP1, "s1.jsonl">>, <<DirP2, "s2.jsonl">>, <<DirP2, "s3.jsonl">>}

ScanQueries == {"docker auth", "react hooks optimization"}

NoStore == [op |-> "none"]

CacheInit ==
  /\ call = Idle
  /\ corpus = SmallCorpus
  /\ disk = {}
  /\ cache \in CacheStarts
  /\ req = [pc |-> "cache", calls |-> 0, parsing |-> <<>>]
  /\ resp = NoResponse
  /\ hist = NoStore
  /\ sessions = sessionsOfCache(cache)

\* processJsonlFile up to its await: a hit returns the cached list, a miss
\* starts the parse
BeginScan(projectDir, file, query) ==
  /\ req.pc = "cache"
  /\ req.calls < MaxScans
  /\ \E cacheKey \in {cacheKeyOf(projectDir, file)} :
       IF cacheHas(cache, cacheKey)
       THEN req' = [req EXCEPT !.calls = req.calls + 1]
       ELSE \E messages \in {parseJsonlFile(projectDir, file,
                                            linesOf(corpus, projectDir, file),
                                            deliveredLines(corpus, disk, projectDir, file),
                                            query, "")} :
              req' = [req EXCEPT !.calls = req.calls + 1,
                                 !.parsing = Append(req.parsing,
                                                    [key |-> cacheKey,
                                                     messages |-> messages])]
  /\ UNCHANGED <<call, corpus, disk, cache, resp, hist, sessions>>

\* the sum of the record scores of a list
ScoreSum(messages) ==
  LET S[i \in 0..Len(messages)] ==
        IF i = 0 THEN 0 ELSE S[i - 1] + messages[i].relevanceScore
  IN S[Len(messages)]

\* the entries of a cache as the properties need them: key, sum of the
\* record scores, number of records
Averages(cacheV) ==
  [k \in 1..Len(cacheV) |->
     [key |-> cacheV[k].key, sum |-> ScoreSum(cacheV[k].messages),
      count |-> Len(cacheV[k].messages)]]

\* the parse of one call in flight settles and the call stores its list
CompleteScan(i) ==
  /\ req.pc = "cache"
  /\ i \in 1..Len(req.parsing)
  /\ \E after \in {cacheAfterParse(cache, req.parsing[i].key, req.parsing[i].messages)} :
       /\ cache' = after
       /\ hist' = [op |-> "store", before |-> Averages(cache), key |-> req.parsing[i].key,
                   messages |-> req.parsing[i].messages]
  /\ req' = [req EXCEPT !.parsing = SubSeq(req.parsing, 1, i - 1)
                                      \o SubSeq(req.parsing, i + 1, Len(req.parsing))]
  /\ sessions' = sessionsAfter(sessions, req.parsing[i].messages)
  /\ UNCHANGED <<call, corpus, disk, resp>>

CacheNext ==
  \/ \E target \in ScanFiles, query \in ScanQueries : BeginScan(target[1], target[2], query)
  \/ \E i \in 1..MaxScans : CompleteScan(i)

SpecCache == CacheInit /\ [][CacheNext]_vars

\* the latest store found the cache at capacity and the key absent
StoredAtCapacity ==
  /\ req.pc = "cache"
  /\ hist.op = "store"
  /\ Len(hist.before) = CacheCapacity
  /\ ~cacheHas(hist.before, hist.key)

HighValue(messages) == \E i \in 1..Len(messages) : messages[i].relevanceScore > 8

\* the keys the latest store removed from the cache
EvictedKeys ==
  {hist.before[k].key : k \in {j \in 1..Len(hist.before) : ~cacheHas(cache, hist.before[j].key)}}

\* a has records and its average record score is at most that of b
AverageAtMost(a, b) ==
  /\ a.count > 0
  /\ \/ b.count = 0
     \/ a.sum * b.count <= b.sum * a.count

\* C11: the message cache never holds more than 500 entries, whatever files
\* are scanned, for whatever queries, and however the calls in flight
\* interleave.
C11_CacheBounded ==
  req.pc = "cache" => Len(cache) <= CacheCapacity

\* a call found the cache at capacity, evicted an entry and stored its list
C11_Witness ==
  /\ StoredAtCapacity
  /\ cacheHas(cache, hist.key)
  /\ Len(cache) = CacheCapacity

\* C12: when a high-value list is stored into a full cache, exactly one
\* entry is evicted, and no entry of the cache had a lower average record
\* score than the evicted one.
C12_LowestAverageEvicted ==
  (StoredAtCapacity /\ HighValue(hist.messages))
    => \E v \in 1..Len(hist.before) :
         /\ EvictedKeys = {hist.before[v].key}
         /\ \A j \in 1..Len(hist.before) : AverageAtMost(hist.before[v], hist.before[j])
-----------------------------------------------------------------------------
(* Claude Desktop: the stores and the secondary search stage               *)

\* String.prototype.indexOf, counted from 1; 0 when sub does not occur
indexOf(s, sub) ==
  CHOOSE out \in
    {IF at = {} THEN 0 ELSE CHOOSE i \in at : \A j \in at : i <= j :
       at \in {{i \in 1..(Len(s) - Len(sub) + 1) : SubSeq(s, i, i + Len(sub) - 1) = sub}}} : TRUE

\* the characters of the store files outside [\x20-\x7E\n]
Unprintable == {"\t", "\r"}

\* rawSnippet.replace(/[^\x20-\x7E\n]/g, ' ')
toPrintable(s) ==
  CHOOSE out \in
    {concat([i \in 1..Len(v) |-> IF Char(v, i) \in Unprintable THEN " " ELSE Char(v, i)]) :
       v \in {s}} : TRUE

\* s.replace(/\d{13,}/g, ''): every maximal run of 13 or more digits goes
removeTimestamps(s) ==
  LET kept(v, n) ==
        LET digit(i) == Char(v, i) \in CharsOf(Digits)
            \* the digits that end at i, and those that start at i
            L[i \in 0..n] == IF i = 0 \/ ~digit(i) THEN 0 ELSE L[i - 1] + 1
            R[i \in 1..(n + 1)] == IF i = n + 1 \/ ~digit(i) THEN 0 ELSE R[i + 1] + 1
        IN concat([i \in 1..n |-> IF digit(i) /\ L[i] + R[i] - 1 >= 13 THEN "" ELSE Char(v, i)])
  IN CHOOSE out \in {kept(v, Len(v)) : v \in {s}} : TRUE

HexChars == CharsOf(Digits) \cup CharsOf("abcdefABCDEF")

\* s.replace(/[a-f0-9]{8}-[a-f0-9]{4}-[a-f0-9]{4}-[a-f0-9]{4}-[a-f0-9]{12}/gi, ''):
\* the matches are taken left to right and do not overlap
removeUuids(s) ==
  LET kept(v, n) ==
        LET matchAt(i) ==
              /\ i + 35 <= n
              /\ \A k \in 0..35 :
                   IF k \in {8, 13, 18, 23} THEN Char(v, i + k) = "-"
                   ELSE Char(v, i + k) \in HexChars
            starts == ascending({i \in 1..n : matchAt(i)})
            \* the last position removed once the first k candidates are seen
            E[k \in 0..Len(starts)] ==
              IF k = 0 THEN 0
              ELSE IF starts[k] > E[k - 1] THEN starts[k] + 35 ELSE E[k - 1]
            removed == UNION {starts[k]..(starts[k] + 35) :
                                k \in {j \in 1..Len(starts) : starts[j] > E[j - 1]}}
        IN CHOOSE out \in
             {concat([i \in 1..n |-> IF i \in gone THEN "" ELSE Char(v, i)]) :
                gone \in {removed}} : TRUE
  IN CHOOSE out \in {kept(v, Len(v)) : v \in {s}} : TRUE

cleanupDesktopSentence(sentence, query) ==
  LET window(cleaned, queryIndex) ==
        trim(slice(cleaned, Max(0, queryIndex - 1 - 20) + 1,
                   Min(Len(cleaned), queryIndex - 1 + Len(query) + 80)))
      meaningful(result) == Len(result) > 15 /\ ~(CharsOf(result) \cap WordCharSet = {})
      finish(cleaned, queryIndex) ==
        IF queryIndex # 0 /\ meaningful(window(cleaned, queryIndex))
        THEN window(cleaned, queryIndex)
        ELSE IF Len(cleaned) > 15 THEN cleaned ELSE ""
  IN CHOOSE out \in
       {finish(cleaned, indexOf(toLowerCase(cleaned), toLowerCase(query))) :
          cleaned \in
            {trim(replaceRuns(
                    removeUuids(removeTimestamps(
                      replaceRuns(trim(replaceRuns(sentence, Whitespace, " ")),
                                  {"{", "}", "\\", "'", "\""}, " "))),
                    Whitespace, " "))}} : TRUE

\* the readable sentence around the query; "" stands for null
extractCleanDesktopContent(rawSnippet, query) ==
  LET fallback(cleaned, queryIndex) ==
        IF queryIndex # 0
        THEN cleanupDesktopSentence(
               trim(slice(cleaned, Max(0, queryIndex - 1 - 50) + 1,
                          Min(Len(cleaned), queryIndex - 1 + 150))), query)
        ELSE ""
      chosen(cleaned, queryLower, relevantSentences) ==
        IF Len(relevantSentences) > 0
        THEN cleanupDesktopSentence(trim(relevantSentences[1]), query)
        ELSE fallback(cleaned, indexOf(toLowerCase(cleaned), queryLower))
      sentenced(cleaned, queryLower) ==
        CHOOSE out \in
          {chosen(cleaned, queryLower, relevantSentences) :
             relevantSentences \in
               {SelectSeq(split(cleaned, {".", "!", "?"}),
                          LAMBDA t : /\ Len(trim(t)) > 10
                                     /\ includes(toLowerCase(t), queryLower))}} : TRUE
  IN CHOOSE out \in
       {sentenced(cleaned, queryLower) :
          cleaned \in {toPrintable(rawSnippet)}, queryLower \in {toLowerCase(query)}} : TRUE

calculateDesktopRelevanceScore(content, query) ==
  LET score(contentLower, queryLower, queryWords, contentWords) ==
        (IF includes(contentLower, queryLower) THEN 10 ELSE 0)
          + 3 * Len(SelectSeq(queryWords,
                              LAMBDA word : \E c \in 1..Len(contentWords) :
                                              includes(contentWords[c], word)))
          + 8
          + (IF includes(contentLower, queryLower) THEN 5 ELSE 0)
          - (IF Len(content) < 30 THEN 5 ELSE 0)
          - (IF 10 * Cardinality({i \in 1..Len(content) :
                                    Char(content, i) \notin
                                      WordCharSet \cup Whitespace \cup {".", ",", "!", "?", "-"}})
                  > 3 * Len(content)
             THEN 3 ELSE 0)
      worded(contentLower, queryLower) ==
        CHOOSE out \in
          {Max(0, score(contentLower, queryLower, queryWords, contentWords)) :
             queryWords \in {split(queryLower, Whitespace)},
             contentWords \in {split(contentLower, Whitespace)}} : TRUE
  IN CHOOSE out \in
       {worded(contentLower, queryLower) :
          contentLower \in {toLowerCase(content)}, queryLower \in {toLowerCase(query)}} : TRUE

endsWith(s, suffix) ==
  Len(s) >= Len(suffix) /\ SubSeq(s, Len(s) - Len(suffix) + 1, Len(s)) = suffix

\* limit || 10
DesktopDefaultLimit == 10

\* one file of a LevelDB directory, as text (its NUL bytes removed)
StoreFile(name, text) == [name |-> name, text |-> text]

\* What Claude Desktop keeps on the machine: config (claude_desktop_config.json
\* exists), localStorage (the "Local Storage" directory exists), leveldb (its
\* leveldb directory can be listed), files (the files of that directory in
\* readdir order), indexedDB ("absent", or what the IndexedDB database
\* directory holds: "unreadable", "empty", "logs")
DesktopData(config, localStorage, leveldb, files, indexedDB) ==
  [config |-> config, localStorage |-> localStorage, leveldb |-> leveldb,
   files |-> files, indexedDB |-> indexedDB]

\* the record searchLocalStorageData builds from a store file; the uuid is
\* drawn from the clock and Math.random, and is unique to the file here; the
\* context extracted from the snippet is not modelled
desktopLocalMessage(name, cleanSnippet, query, now) ==
  [uuid |-> "desktop-local-" \o name, timestamp |-> now, type |-> "assistant",
   content |-> cleanSnippet, sessionId |-> "claude-desktop",
   projectPath |-> "Claude Desktop",
   relevanceScore |-> calculateDesktopRelevanceScore(cleanSnippet, query),
   context |-> NoContext]

\* searchLocalStorageData on store files that hold no LSS- entries
searchLocalStorageData(desktop, query, limit, now) ==
  LET found(file, textLower, queryLower) ==
        IF ~includes(textLower, queryLower) THEN <<>>
        ELSE CHOOSE out \in
               {IF Len(cleanSnippet) > 30
                THEN <<desktopLocalMessage(file.name, cleanSnippet, query, now)>>
                ELSE <<>> :
                  cleanSnippet \in
                    {CHOOSE x \in
                       {extractCleanDesktopContent(
                          slice(file.text, Max(0, queryIndex - 1 - 200) + 1,
                                Min(Len(file.text), queryIndex - 1 + 300)), query) :
                          queryIndex \in {indexOf(textLower, queryLower)}} : TRUE}} : TRUE
      perFile(file, queryLower) ==
        IF endsWith(file.name, ".ldb") \/ endsWith(file.name, ".log")
        THEN found(file, toLowerCase(file.text), queryLower)
        ELSE <<>>
      all(files, queryLower) ==
        LET A[i \in 0..Len(files)] ==
              IF i = 0 THEN <<>>
              ELSE CHOOSE out \in {prev \o perFile(files[i], queryLower) : prev \in {A[i - 1]}} :
                     TRUE
        IN A[Len(files)]
  IN IF ~desktop.localStorage \/ ~desktop.leveldb THEN <<>>
     ELSE CHOOSE out \in
            {SubSeq(results, 1, Min(Len(results),
                                    IF limit = 0 THEN DesktopDefaultLimit ELSE limit)) :
               results \in {all(desktop.files, toLowerCase(query))}} : TRUE

\* what a body hands to its caller
Value(v) == [thrown |-> FALSE, value |-> v]

Thrown == [thrown |-> TRUE, value |-> <<>>]

\* how Promise.race([copyPromise, timeoutPromise]) settles.  The copy writes
\* into tempDir/temp.leveldb, a directory that is never created, so copyFile
\* rejects when it gets that far; otherwise the 100 ms timer rejects first.
RaceOutcomes == {"copyRejected", "timeout"}

\* a catch block that passes the exception on
caught_rethrows(result) == result

\* catch (error) { return [] }
caught(result) == IF result.thrown THEN Value(<<>>) ELSE result

\* await Promise.race([copyPromise, timeoutPromise]): both outcomes reject
awaitRace(outcome) ==
  CASE outcome = "copyRejected" -> Thrown
    [] outcome = "timeout" -> Thrown

\* searchIndexedDBWithMicroCopy: no path, a database directory that cannot
\* be listed, no .log file, or the race
searchIndexedDBWithMicroCopy(desktop, outcome) ==
  IF desktop.indexedDB = "absent" THEN Value(<<>>)
  ELSE caught(IF desktop.indexedDB = "unreadable" THEN Thrown
              ELSE IF desktop.indexedDB = "empty" THEN Value(<<>>)
              ELSE awaitRace(outcome))

\* searchLocalStorageWithMicroCopy: no path, a leveldb directory that cannot
\* be listed, nothing to copy, or the race
searchLocalStorageWithMicroCopy(desktop, outcome) ==
  IF ~desktop.localStorage THEN Value(<<>>)
  ELSE caught(IF ~desktop.leveldb THEN Thrown
              ELSE IF SelectSeq(desktop.files,
                                LAMBDA f : \/ endsWith(f.name, ".log")
                                           \/ endsWith(f.name, ".ldb")
                                           \/ f.name = "CURRENT") = <<>>
                   THEN Value(<<>>)
                   ELSE awaitRace(outcome))

\* whether the call reaches its race
racesIndexedDB(desktop) == desktop.indexedDB = "logs"

racesLocalStorage(desktop) ==
  /\ desktop.localStorage
  /\ desktop.leveldb
  /\ \E i \in 1..Len(desktop.files) :
       \/ endsWith(desktop.files[i].name, ".log")
       \/ endsWith(desktop.files[i].name, ".ldb")
       \/ desktop.files[i].name = "CURRENT"

\* combinedMessages.sort: relevanceScore, highest first, then timestamp,
\* latest first; stable
sortByRelevance(messages) ==
  LET before(a, b) ==
        \/ a.relevanceScore > b.relevanceScore
        \/ (a.relevanceScore = b.relevanceScore /\ a.timestamp > b.timestamp)
      insert(sorted, m) ==
        CHOOSE out \in
          {SubSeq(sorted, 1, k) \o <<m>> \o SubSeq(sorted, k + 1, Len(sorted)) :
             k \in {Cardinality({i \in 1..Len(sorted) : ~before(m, sorted[i])})}} : TRUE
      sort(msgs) ==
        LET S[i \in 0..Len(msgs)] ==
              IF i = 0 THEN <<>>
              ELSE CHOOSE out \in {insert(prev, msgs[i]) : prev \in {S[i - 1]}} : TRUE
        IN S[Len(msgs)]
  IN CHOOSE out \in {sort(msgs) : msgs \in {messages}} : TRUE

combineSearchResults(claudeCodeResults, desktopMessages) ==
  [messages |-> sortByRelevance(claudeCodeResults.messages \o desktopMessages),
   totalResults |-> claudeCodeResults.totalResults + Len(desktopMessages)]
-----------------------------------------------------------------------------
(* UniversalHistorySearchEngine.searchConversations with Claude Desktop    *)

LineBuild ==
  Line("m-build", NowHours - 5, "tool_result",
       ArrayContent(<<TextItem("docker build for src/app.ts finished without warnings"),
                      ToolUseItem("Bash")>>))

LineAuthn ==
  Line("m-authn", NowHours - 4, "assistant",
       ArrayContent(<<TextItem("the docker authentication layer was rewritten last week"),
                      ToolUseItem("Edit")>>))

\* one project with one session
DesktopCorpus ==
  << [dir |-> DirP1, files |-> << [file |-> "s1.jsonl", lines |-> <<LineBuild, LineAuthn>>] >>] >>

\* files of Claude Desktop's Local Storage leveldb directory
FileNotes ==
  StoreFile("000005.ldb",
            "{\"text\":\"docker auth proxy setup notes for the team\",\"ts\":1700000000000,"
              \o "\"id\":\"123e4567-e89b-12d3-a456-426614174000\"}")

FileChat ==
  StoreFile("000007.log",
            "We met.\tThe docker auth flow is broken on staging and needs a new token! Next.")

FileCurrent == StoreFile("CURRENT", "MANIFEST-000004")

DesktopMachines ==
  {DesktopData(config, localStorage, leveldb, files, indexedDB) :
     config \in BOOLEAN, localStorage \in BOOLEAN, leveldb \in BOOLEAN,
     files \in {<<>>, <<FileCurrent>>, <<FileNotes, FileCurrent>>,
                <<FileNotes, FileChat, FileCurrent>>},
     indexedDB \in {"absent", "unreadable", "empty", "logs"}}

\* searches in one behaviour
MaxSearches == 1

\* <<query, limit>>, limit 0 when the caller gives none
DesktopRequests ==
  {<<"docker auth", 0>>, <<"docker auth", 1>>, <<"docker auth", 2>>,
   <<"react hooks optimization", 0>>}

\* the UniversalHistorySearchEngine: the Claude Desktop installation its
\* initialize() detected, where its searchConversations stands, and how many
\* calls it has served
NoFrame(machine) ==
  [fn |-> "universalSearch", pc |-> "idle", searches |-> 0, desktop |-> machine]

DesktopInit ==
  /\ call \in {NoFrame(machine) : machine \in {m \in DesktopMachines :
                                                 /\ (m.leveldb => m.localStorage)
                                                 /\ (m.files # <<>> => m.leveldb)}}
  /\ corpus = DesktopCorpus
  /\ disk = {}
  /\ cache = <<>>
  /\ req = NoRequest
  /\ resp = NoResponse
  /\ hist = NoHistory
  /\ sessions = <<>>

Desktop == call.desktop

\* what the caller of the universal search receives
Envelope(frame, source, results, enhanced, primary, desktopMessages) ==
  [op |-> "universalSearch", query |-> frame.query, limit |-> frame.limit,
   source |-> source, enhanced |-> enhanced,
   messages |-> results.messages, totalResults |-> results.totalResults,
   primary |-> primary, desktopMessages |-> desktopMessages, timedOut |-> frame.timedOut]

\* the call arrives: initialize
ReceiveSearch(query, limit) ==
  /\ call.fn = "universalSearch"
  /\ call.pc = "idle"
  /\ call.searches < MaxSearches
  /\ call' = [fn |-> "universalSearch", pc |-> "primary", searches |-> call.searches + 1,
              desktop |-> call.desktop,
              query |-> query, limit |-> limit, claudeCodeResults |-> <<>>,
              results |-> <<>>, thrown |-> FALSE, timedOut |-> FALSE]
  /\ resp' = NoResponse
  /\ UNCHANGED <<corpus, disk, cache, req, hist, sessions>>

\* this.claudeCodeEngine.searchConversations(query, project, timeframe, limit)
PrimarySearch ==
  /\ call.fn = "universalSearch"
  /\ call.pc = "primary"
  /\ resp.op = "none"
  /\ StartSearch(call.query, "", "", IF call.limit = 0 THEN DefaultLimit ELSE call.limit)

\* the primary search has returned: without Claude Desktop its result is the
\* answer, with it the Desktop stage begins (and ends at once when there is
\* no IndexedDB path)
PrimaryReturned ==
  /\ call.fn = "universalSearch"
  /\ call.pc = "primary"
  /\ Finished
  /\ \E claudeCodeResults \in
         {[messages |-> resp.messages, totalResults |-> resp.totalResults]} :
       IF ~Desktop.config
       THEN /\ resp' = Envelope(call, "claude-code", claudeCodeResults, FALSE,
                                claudeCodeResults, <<>>)
            /\ call' = [call EXCEPT !.pc = "idle"]
       ELSE /\ resp' = NoResponse
            /\ call' = [call EXCEPT !.pc = IF Desktop.indexedDB = "absent" THEN "combine"
                                           ELSE "localStorageData",
                                    !.claudeCodeResults = claudeCodeResults]
  /\ UNCHANGED <<corpus, disk, cache, req, hist, sessions>>

\* searchClaudeDesktopConversations: the Local Storage data
SearchLocalStorageData ==
  /\ call.fn = "universalSearch"
  /\ call.pc = "localStorageData"
  /\ call' = [call EXCEPT !.pc = "indexedDB",
                          !.results = searchLocalStorageData(Desktop, call.query, call.limit,
                                                             NowHours)]
  /\ UNCHANGED <<corpus, disk, cache, req, resp, hist, sessions>>

\* one source of the stage has settled: its records are pushed, or its
\* exception takes the stage to its catch block
Pushed(settled, next, timedOut) ==
  [call EXCEPT !.pc = IF settled.thrown THEN "combine" ELSE next,
               !.results = call.results \o settled.value,
               !.thrown = settled.thrown,
               !.timedOut = call.timedOut \/ timedOut]

\* searchClaudeDesktopConversations: the IndexedDB micro-copy
SearchIndexedDB(outcome) ==
  /\ call.fn = "universalSearch"
  /\ call.pc = "indexedDB"
  /\ call' = Pushed(searchIndexedDBWithMicroCopy(Desktop, outcome), "localStorage",
                    racesIndexedDB(Desktop) /\ outcome = "timeout")
  /\ UNCHANGED <<corpus, disk, cache, req, resp, hist, sessions>>

\* searchClaudeDesktopConversations: the Local Storage micro-copy
SearchLocalStorage(outcome) ==
  /\ call.fn = "universalSearch"
  /\ call.pc = "localStorage"
  /\ call' = Pushed(searchLocalStorageWithMicroCopy(Desktop, outcome), "combine",
                    racesLocalStorage(Desktop) /\ outcome = "timeout")
  /\ UNCHANGED <<corpus, disk, cache, req, resp, hist, sessions>>

\* the end of the stage (its slice, or the [] of its catch block) and
\* combineSearchResults
CombineResults ==
  /\ call.fn = "universalSearch"
  /\ call.pc = "combine"
  /\ \E desktopMessages \in
         {IF call.thrown THEN <<>>
          ELSE SubSeq(call.results, 1,
                      Min(Len(call.results),
                          IF call.limit = 0 THEN DesktopDefaultLimit ELSE call.limit))} :
       resp' = Envelope(call, IF Len(desktopMessages) > 0 THEN "claude-desktop"
                              ELSE "claude-code",
                        combineSearchResults(call.claudeCodeResults, desktopMessages),
                        Len(desktopMessages) > 0, call.claudeCodeResults, desktopMessages)
  /\ call' = [call EXCEPT !.pc = "idle"]
  /\ UNCHANGED <<corpus, disk, cache, req, hist, sessions>>

DesktopNext ==
  \/ \E request \in DesktopRequests : ReceiveSearch(request[1], request[2])
  \/ PrimarySearch
  \/ ListFiles(1)
  \/ ScanFile(1)
  \/ FinishSearch
  \/ PrimaryReturned
  \/ SearchLocalStorageData
  \/ \E outcome \in RaceOutcomes : SearchIndexedDB(outcome)
  \/ \E outcome \in RaceOutcomes : SearchLocalStorage(outcome)
  \/ CombineResults

SpecDesktop == DesktopInit /\ [][DesktopNext]_vars

UniversalFinished ==
  call.fn = "universalSearch" /\ call.pc = "idle" /\ resp.op = "universalSearch"
-----------------------------------------------------------------------------
\* the Desktop stage's part of the answer when nothing went wrong in it: the
\* Local Storage data records, cut to the stage's limit
SlicedLocalStorageData ==
  CHOOSE out \in
    {SubSeq(found, 1, Min(Len(found), IF resp.limit = 0 THEN DesktopDefaultLimit
                                       ELSE resp.limit)) :
       found \in {searchLocalStorageData(Desktop, resp.query, resp.limit, NowHours)}} : TRUE

PrimaryReturnedToCaller ==
  \A i \in 1..Len(resp.primary.messages) :
    \E j \in 1..Len(resp.messages) : resp.messages[j] = resp.primary.messages[i]

IsPrimaryRecord(m) == m.sessionId # "claude-desktop"

\* C14: the list the universal search returns is ordered by non-increasing
\* final score (over the records that carry one, the primary records).
C14_OrderedByFinalScore ==
  UniversalFinished
    => \A i, j \in 1..Len(resp.messages) :
         (i < j /\ IsPrimaryRecord(resp.messages[i]) /\ IsPrimaryRecord(resp.messages[j]))
           => RGeq(resp.messages[i].finalScore, resp.messages[j].finalScore)

\* the limit the caller asked for, the default when none was given
RequestedLimit == IF resp.limit = 0 THEN DefaultLimit ELSE resp.limit

\* C15: the list the universal search returns is never longer than the
\* requested limit, whichever sources contributed.
C15_WithinLimit ==
  UniversalFinished => Len(resp.messages) <= RequestedLimit
-----------------------------------------------------------------------------
(* The deduplicator applied to bounded candidate lists                     *)

\* candidates in one list
MaxMessages == 3

DedupContexts ==
  {NoContext,
   [toolsUsed |-> <<"Read", "Bash">>, filesReferenced |-> <<>>,
    errorPatterns |-> <<>>, codeSnippets |-> <<>>],
   [toolsUsed |-> <<"Bash", "Read">>, filesReferenced |-> <<>>,
    errorPatterns |-> <<>>, codeSnippets |-> <<>>]}

\* <<content, context, finalScore>>: two contents that differ in one digit
\* string, one of them with a quote and in other casing, and another text
DedupPool ==
  ({"Retry the docker build 3 times before failing the job at 1700000000000"}
     \X {NoContext} \X {RInt(0), RInt(5)})
  \cup
  ({"Retry the docker build 3 times before failing the job at 170000000000123"}
     \X DedupContexts \X {RInt(5)})
  \cup
  ({"Retry the docker build 3 times before failing the job at 170000000000123",
    "retry the 'docker' build 3 times   before failing the job at 1700000000000",
    "The planner loop fix retries the request and reports the error"}
     \X {NoContext} \X {Rat(11, 2)})

DedupCandidate(i, picked) ==
  [uuid |-> "m" \o Char(Digits, i + 1), timestamp |-> NowHours - i, type |-> "assistant",
   content |-> picked[1], sessionId |-> "s1", projectPath |-> "/home/u/p1",
   relevanceScore |-> 21, context |-> picked[2],
   origin |-> <<"-home-u-p1", "s1.jsonl", i>>, finalScore |-> picked[3]]

DedupInit ==
  /\ call \in {[fn |-> "intelligentDeduplicate",
                messages |-> [i \in 1..n |-> DedupCandidate(i, picks[i])],
                done |-> FALSE, out |-> <<>>] :
                 n \in 1..MaxMessages, picks \in [1..MaxMessages -> DedupPool]}
  /\ corpus = <<>>
  /\ disk = {}
  /\ cache = <<>>
  /\ req = NoRequest
  /\ resp = NoResponse
  /\ hist = NoHistory
  /\ sessions = <<>>

ApplyDedup ==
  /\ call.fn = "intelligentDeduplicate"
  /\ ~call.done
  /\ call' = [call EXCEPT !.done = TRUE, !.out = intelligentDeduplicate(call.messages)]
  /\ UNCHANGED <<corpus, disk, cache, req, resp, hist, sessions>>

DedupNext == ApplyDedup

SpecDedup == DedupInit /\ [][DedupNext]_vars

Deduplicated == call.fn = "intelligentDeduplicate" /\ call.done

\* the signature of each candidate of a list
SignaturesOf(messages) ==
  [i \in 1..Len(messages) |-> createIntelligentSignature(messages[i])]

\* the candidate the Map holds for the signature of candidate i: the first
\* one, replaced by each later one of strictly higher final score, which
\* leaves the earliest candidate of the highest score
KeptFor(sig, i) ==
  CHOOSE j \in 1..Len(call.messages) :
    /\ sig[j] = sig[i]
    /\ \A k \in 1..Len(call.messages) :
         sig[k] = sig[i]
           => /\ RGeq(call.messages[j].finalScore, call.messages[k].finalScore)
              /\ (k < j => RLess(call.messages[k].finalScore, call.messages[j].finalScore))

\* the length of the longest common prefix
CommonPrefix(a, b) ==
  Cardinality({n \in 1..Min(Len(a), Len(b)) : SubSeq(a, 1, n) = SubSeq(b, 1, n)})

CommonSuffix(a, b) ==
  Cardinality({n \in 1..Min(Len(a), Len(b)) :
                 SubSeq(a, Len(a) - n + 1, Len(a)) = SubSeq(b, Len(b) - n + 1, Len(b))})

\* a and b are the same text except for one run of digits
DiffersOnlyInDigitString(a, b) ==
  /\ a # b
  /\ \E p \in 0..CommonPrefix(a, b) :
       \E s \in 0..CommonSuffix(a, b) :
         /\ p + s < Len(a)
         /\ p + s < Len(b)
         /\ \A i \in (p + 1)..(Len(a) - s) : Char(a, i) \in CharsOf(Digits)
         /\ \A i \in (p + 1)..(Len(b) - s) : Char(b, i) \in CharsOf(Digits)

\* C16: deduplication returns exactly one record per distinct content
\* signature of its input: the first-seen record of the signature, unless a
\* later one has a strictly higher final score; records that differ only in
\* a digit string have one signature and collapse into one record. (The
\* record comes back with the tool list its signature left sorted.)
C16_OnePerSignature ==
  Deduplicated
    => /\ \E sig \in {SignaturesOf(call.messages)} :
            \E sigOut \in {SignaturesOf(call.out)} :
              /\ \A i \in 1..Len(call.messages) :
                   Cardinality({k \in 1..Len(call.out) : sigOut[k] = sig[i]}) = 1
              /\ \A k \in 1..Len(call.out) :
                   \E i \in 1..Len(call.messages) :
                     call.out[k] = [call.messages[KeptFor(sig, i)] EXCEPT
                                      !.context.toolsUsed = sortStrings(@)]
       /\ \A i, j \in 1..Len(call.messages) :
            (/\ i < j
             /\ call.messages[i].type = call.messages[j].type
             /\ call.messages[i].context = call.messages[j].context
             /\ DiffersOnlyInDigitString(call.messages[i].content, call.messages[j].content))
              => Cardinality({k \in 1..Len(call.out) :
                                call.out[k].uuid \in {call.messages[i].uuid,
                                                      call.messages[j].uuid}}) <= 1

\* three candidates that differ in digit strings only; the second outscores
\* the first and ties with the third, and is the one returned
C16_Witness ==
  /\ Deduplicated
  /\ Len(call.messages) = 3
  /\ DiffersOnlyInDigitString(call.messages[1].content, call.messages[2].content)
  /\ call.messages[3].content = call.messages[1].content
  /\ call.messages[1].context = call.messages[2].context
  /\ call.messages[3].context = call.messages[2].context
  /\ RLess(call.messages[1].finalScore, call.messages[2].finalScore)
  /\ call.messages[3].finalScore = call.messages[2].finalScore
  /\ call.out = <<call.messages[2]>>
-----------------------------------------------------------------------------
(* The Similarity Engine: SearchHelpers.calculateQuerySimilarity           *)

RAdd(a, b) ==
  CHOOSE out \in {Rat(x[1] * y[2] + y[1] * x[2], x[2] * y[2]) : x \in {a}, y \in {b}} : TRUE

similarityStopWords ==
  {"the", "and", "for", "that", "this", "with", "from", "have", "has", "how", "what",
   "when", "where", "why", "can", "could", "would", "should", "want", "need", "help",
   "please", "just", "like", "some", "any", "all"}

\* <<key, synonyms>> in the order of the object literal
technicalSynonyms ==
  <<<<"error", {"exception", "fail", "crash", "bug", "issue", "problem"}>>,
    <<"fix", {"resolve", "solve", "repair", "correct", "solution"}>>,
    <<"install", {"setup", "configure", "add", "create"}>>,
    <<"build", {"compile", "bundle", "deploy", "package"}>>,
    <<"test", {"verify", "check", "validate", "debug"}>>,
    <<"typescript", {"ts", "type", "interface"}>>,
    <<"javascript", {"js", "node", "npm"}>>>>

technicalTriggers == {"error", "fix", "build", "install", "typescript", "javascript"}

\* query.toLowerCase().split(/\s+/).filter((w) => w.length > 2)
similarityWordsOf(query) ==
  CHOOSE out \in
    {SelectSeq(pieces, LAMBDA w : Len(w) > 2) :
       pieces \in {split(toLowerCase(query), Whitespace)}} : TRUE

\* words.filter((w) => w.length >= 4 && !stopWords.has(w))
significantOf(words) ==
  SelectSeq(words, LAMBDA w : Len(w) >= 4 /\ w \notin similarityStopWords)

isWordSimilar(word1, word2) ==
  \E minLen \in {Min(Len(word1), Len(word2))} :
    /\ ~(Len(word1) - Len(word2) > 3 \/ Len(word2) - Len(word1) > 3)
    /\ ~(minLen < 4)
    \* matches >= minLen * 0.6
    /\ 10 * Cardinality({i \in 1..minLen : Char(word1, i) = Char(word2, i)}) >= 6 * minLen

\* word.replace(/(ing|ed|s|ly|tion|ment)$/, ''): the leftmost position where
\* one of the suffixes reaches the end of the word, which is the longest one
stem(word) ==
  LET cut == {Len(suffix) : suffix \in {x \in {"ing", "ed", "s", "ly", "tion", "ment"} :
                                          endsWith(word, x)}}
  IN IF cut = {} THEN word
     ELSE SubSeq(word, 1, Len(word) - (CHOOSE n \in cut : \A m \in cut : m <= n))

\* the body of the inner loop for one pair of words: the match score and
\* whether the branch taken increments significantMatches
pairMatch(word1, word2, isSignificant1, isSignificant2) ==
  IF word1 = word2
  THEN [matchScore |-> RInt(1), counted |-> isSignificant1 /\ isSignificant2]
  ELSE IF includes(word1, word2) \/ includes(word2, word1)
  THEN LET shorter == Min(Len(word1), Len(word2))
           longer == Max(Len(word1), Len(word2))
       IN IF shorter >= 5 /\ 10 * shorter >= 6 * longer
          THEN [matchScore |-> Rat(8 * shorter, 10 * longer),
                counted |-> isSignificant1 /\ isSignificant2]
          ELSE [matchScore |-> RInt(0), counted |-> FALSE]
  ELSE IF isWordSimilar(word1, word2)
  THEN [matchScore |-> Rat(6, 10), counted |-> FALSE]
  ELSE IF \E k \in 1..Len(technicalSynonyms) :
            \/ (technicalSynonyms[k][1] = word1 /\ word2 \in technicalSynonyms[k][2])
            \/ (technicalSynonyms[k][1] = word2 /\ word1 \in technicalSynonyms[k][2])
            \/ (word1 \in technicalSynonyms[k][2] /\ word2 \in technicalSynonyms[k][2])
  THEN [matchScore |-> Rat(7, 10), counted |-> isSignificant1 /\ isSignificant2]
  ELSE [matchScore |-> RInt(0), counted |-> FALSE]

\* The two loops: matched2, totalScore and significantMatches after them, and
\* chosen, the pairs <<i, bestIndex>> the assignment settled on.
greedyAssignment(words1, words2, significant1, significant2) ==
  LET inner(i, before) ==
        LET isSignificant1 == InSeq(words1[i], significant1)
            J[j \in 0..Len(words2)] ==
              IF j = 0
              THEN [bestMatch |-> RInt(0), bestIndex |-> 0,
                    significantMatches |-> before.significantMatches]
              ELSE CHOOSE out \in
                     {IF j \in before.matched2 THEN prev
                      ELSE [bestMatch |-> IF RLess(prev.bestMatch, m.matchScore)
                                          THEN m.matchScore ELSE prev.bestMatch,
                            bestIndex |-> IF RLess(prev.bestMatch, m.matchScore)
                                          THEN j ELSE prev.bestIndex,
                            significantMatches |->
                              prev.significantMatches + (IF m.counted THEN 1 ELSE 0)] :
                        prev \in {J[j - 1]},
                        m \in {pairMatch(words1[i], words2[j], isSignificant1,
                                         InSeq(words2[j], significant2))}} : TRUE
        IN CHOOSE out \in
             {[matched2 |-> IF last.bestIndex > 0 THEN before.matched2 \cup {last.bestIndex}
                            ELSE before.matched2,
               totalScore |-> IF last.bestIndex > 0 THEN RAdd(before.totalScore, last.bestMatch)
                              ELSE before.totalScore,
               significantMatches |-> last.significantMatches,
               chosen |-> IF last.bestIndex > 0 THEN Append(before.chosen, <<i, last.bestIndex>>)
                          ELSE before.chosen] :
                last \in {J[Len(words2)]}} : TRUE
      outer ==
        LET I[i \in 0..Len(words1)] ==
              IF i = 0
              THEN [matched2 |-> {}, totalScore |-> RInt(0), significantMatches |-> 0,
                    chosen |-> <<>>]
              ELSE CHOOSE out \in {inner(i, before) : before \in {I[i - 1]}} : TRUE
        IN I[Len(words1)]
  IN CHOOSE out \in {outer : dummy \in {0}} : TRUE

\* Math.min(score, 1.0)
capAtOne_none(score) == score

capAtOne(score) == IF RLess(RInt(1), score) THEN RInt(1) ELSE score

\* calculateQuerySimilarity with its locals: the value returned, and the
\* words, the significant words and the assignment it was computed from
querySimilarity(query1, query2) ==
  LET finish(words1, words2, significant1, significant2, loops) ==
        LET maxWords == Max(Len(words1), Len(words2))
            minWords == Min(Len(words1), Len(words2))
            stemmed2 == [j \in 1..Len(words2) |-> stem(words2[j])]
            stemmedIntersection ==
              SelectSeq([i \in 1..Len(words1) |-> stem(words1[i])],
                        LAMBDA w : InSeq(w, stemmed2))
            stemBonus == RMul(Rat(Len(stemmedIntersection), maxWords), Rat(3, 10))
            isTechnical ==
              \/ \E i \in 1..Len(words1) : words1[i] \in technicalTriggers
              \/ \E j \in 1..Len(words2) : words2[j] \in technicalTriggers
            technicalBoost == IF isTechnical THEN Rat(12, 10) ELSE RInt(1)
            lengthPenalty == Rat(minWords, maxWords)
            similarityBase == RMul(RMul(Rat(loops.totalScore[1], loops.totalScore[2] * maxWords),
                                   lengthPenalty), technicalBoost)
        IN IF /\ loops.significantMatches < 2
              /\ Len(significant1) >= 2
              /\ Len(significant2) >= 2
           THEN RInt(0)
           ELSE capAtOne(RAdd(similarityBase, stemBonus))
      locals(words1, words2, significant1, significant2) ==
        IF Len(words1) = 0 \/ Len(words2) = 0
        THEN [returned |-> RInt(0), words1 |-> words1, words2 |-> words2,
              significant1 |-> <<>>, significant2 |-> <<>>, chosen |-> <<>>,
              significantMatches |-> 0]
        ELSE CHOOSE out \in
               {[returned |-> finish(words1, words2, significant1, significant2, loops),
                 words1 |-> words1, words2 |-> words2,
                 significant1 |-> significant1, significant2 |-> significant2,
                 chosen |-> loops.chosen,
                 significantMatches |-> loops.significantMatches] :
                  loops \in {greedyAssignment(words1, words2, significant1, significant2)}} : TRUE
      filtered(words1, words2) ==
        CHOOSE out \in
          {locals(words1, words2, significant1, significant2) :
             significant1 \in {significantOf(words1)},
             significant2 \in {significantOf(words2)}} : TRUE
  IN CHOOSE out \in
       {filtered(words1, words2) :
          words1 \in {similarityWordsOf(query1)},
          words2 \in {similarityWordsOf(query2)}} : TRUE

calculateQuerySimilarity(query1, query2) == querySimilarity(query1, query2).returned

(* The Similarity Engine applied to bounded pairs of queries               *)

\* words of an enumerated query
MaxSimilarityWords == 2

SimilarityVocabulary == <<"error", "exception", "problem", "handling", "tests">>

SimilarityQueries ==
  WordsUpTo(SimilarityVocabulary, MaxSimilarityWords)
    \cup {"", "write unit tests", "test sidekick", "Docker  Build", "fix the dockerfile build",
          "tests tests"}

SimilarityInit ==
  /\ call \in {[fn |-> "calculateQuerySimilarity", query1 |-> query1, query2 |-> query2,
                done |-> FALSE, out |-> RInt(0), locals |-> <<>>] :
                 query1 \in SimilarityQueries, query2 \in SimilarityQueries}
  /\ corpus = <<>>
  /\ disk = {}
  /\ cache = <<>>
  /\ req = NoRequest
  /\ resp = NoResponse
  /\ hist = NoHistory
  /\ sessions = <<>>

ApplySimilarity ==
  /\ call.fn = "calculateQuerySimilarity"
  /\ ~call.done
  /\ call' = [call EXCEPT !.done = TRUE,
                          !.out = calculateQuerySimilarity(call.query1, call.query2),
                          !.locals = querySimilarity(call.query1, call.query2)]
  /\ UNCHANGED <<corpus, disk, cache, req, resp, hist, sessions>>

SimilarityNext == ApplySimilarity

SpecSimilarity == SimilarityInit /\ [][SimilarityNext]_vars

SimilarityComputed == call.fn = "calculateQuerySimilarity" /\ call.done

\* the chosen matches that pair a significant word of the first query with
\* a significant word of the second
SignificantChosen ==
  {k \in 1..Len(call.locals.chosen) :
     /\ InSeq(call.locals.words1[call.locals.chosen[k][1]], call.locals.significant1)
     /\ InSeq(call.locals.words2[call.locals.chosen[k][2]], call.locals.significant2)}

\* C17: if both queries have at least 2 significant words and fewer than 2
\* of the matches chosen by the greedy assignment pair a significant word of
\* one with a significant word of the other, the similarity is exactly 0.
C17_SignificantMatchGate ==
  (/\ SimilarityComputed
   /\ Len(call.locals.significant1) >= 2
   /\ Len(call.locals.significant2) >= 2
   /\ Cardinality(SignificantChosen) < 2)
    => call.out = RInt(0)

\* C17: the example of the gate, similarity("write unit tests", "test sidekick") = 0
C17_ExampleIsZero ==
  (/\ SimilarityComputed
   /\ call.query1 = "write unit tests"
   /\ call.query2 = "test sidekick")
    => call.out = RInt(0)

\* C18: for all query strings a and b, 0 <= similarity(a, b) <= 1.
C18_SimilarityBounded ==
  SimilarityComputed => (RGeq(call.out, RInt(0)) /\ RGeq(RInt(1), call.out))

\* the same technical query twice: every word matches at 1.0, the boost and
\* the stemming bonus take the sum to 1.5, and 1 is returned
C18_Witness ==
  /\ SimilarityComputed
  /\ call.query1 = "error handling"
  /\ call.query2 = "error handling"
  /\ call.locals.chosen = <<<<1, 1>>, <<2, 2>>>>
  /\ call.out = RInt(1)
-----------------------------------------------------------------------------
(* The search over a corpus of one record                                  *)

ScenarioContent == "We fixed the Docker auth issue using the Read tool"

\* how long ago the record was written, in hours
ScenarioAges == {2, 30, 200, 2000}

\* the assistant message as Claude Code writes it, the text with the tool
\* call it made, and the text alone
ScenarioMessages ==
  {ArrayContent(<<TextItem(ScenarioContent), ToolUseItem("Read")>>),
   StringContent(ScenarioContent)}

LineScenario(age, message) == Line("m-scenario", NowHours - age, "assistant", message)

ScenarioCorpus(age, message) ==
  << [dir |-> DirP1,
      files |-> << [file |-> "s1.jsonl", lines |-> <<LineScenario(age, message)>>] >>] >>

\* <<query, limit>>
ScenarioRequests ==
  {"docker auth", "Docker Auth", "auth issue", "kubernetes auth", "read tool"} \X {1, DefaultLimit}

ScenarioInit ==
  /\ call = Idle
  /\ corpus \in {ScenarioCorpus(age, message) : age \in ScenarioAges,
                                                message \in ScenarioMessages}
  /\ disk = {}
  /\ cache = <<>>
  /\ req = NoRequest
  /\ resp = NoResponse
  /\ hist = NoHistory
  /\ sessions = <<>>

ScenarioNext ==
  \/ \E request \in ScenarioRequests : StartSearch(request[1], "", "", request[2])
  \/ ListFiles(1)
  \/ ScanFile(1)
  \/ FinishSearch

SpecScenario == ScenarioInit /\ [][ScenarioNext]_vars

\* the record of the corpus was written with its call of the Read tool
WithToolUse == corpus[1].files[1].lines[1].message.kind = "array"

\* C19: over the corpus of the single assistant record "We fixed the Docker
\* auth issue using the Read tool" (tools used: Read), search("docker auth")
\* returns a list of exactly that record, with a non-zero score, the
\* strict-core term "docker" of the query matching through the Term Matcher.
C19_ScenarioReturnsTheRecord ==
  (Finished /\ resp.query = "docker auth" /\ WithToolUse)
    => /\ Len(resp.messages) = 1
       /\ resp.messages[1].uuid = "m-scenario"
       /\ SubSeq(resp.messages[1].content, 1, Len(ScenarioContent)) = ScenarioContent
       /\ resp.messages[1].context.toolsUsed = <<"Read">>
       /\ resp.messages[1].relevanceScore > 0
       /\ RLess(RInt(0), resp.messages[1].finalScore)
       /\ InSeq("docker", strictCoreTermsOf(queryWordsOf(toLowerCase(resp.query))))
       /\ matchesTechTerm(resp.messages[1].content, "docker")

\* C19 for an engine whose cache was empty when the search began
C19_FirstSearchReturnsTheRecord ==
  hist.cache0 = <<>> => C19_ScenarioReturnsTheRecord
-----------------------------------------------------------------------------
(* The parser applied to bounded session files                             *)

\* lines in one session file
MaxLines == 3

\* n copies of s
Repeat(s, n) == concat([i \in 1..n |-> s])

\* a payload pasted into a message: 4080 characters without a separator
Payload == Repeat("QUJDREVGR0hJSktMTU5P", 204)

LineText ==
  Line("m-text", NowHours - 2, "assistant",
       StringContent("Deployed the build and verified that the login page works again"))

LineEmptyString == Line("m-empty", NowHours - 2, "user", StringContent(""))

LineNoItems == Line("m-noitems", NowHours - 2, "assistant", ArrayContent(<<>>))

LineBlank == Line("m-blank", NowHours - 2, "user", StringContent("   "))

\* a line that decodes to an object whose cwd is a number
LineNumericCwd ==
  [Line("m-cwd", NowHours - 1, "user",
        StringContent("The login build fails when the working directory is missing"))
     EXCEPT !.json = "numeric-cwd", !.cwd = ""]

\* a long text in plain sentences
LineLongPlain ==
  Line("m-plain", NowHours - 3, "assistant",
       StringContent("The login build is working now and the deploy went through. "
                     \o "We looked at the payload that came back! " \o Payload
                     \o " Was that the whole answer of the service?"))

\* a long text that names a function and holds no closing brace
LineLongFunction ==
  Line("m-function", NowHours - 2, "user",
       StringContent("The login function is called with this payload and the build breaks: "
                     \o Payload))

\* a long text with an error message
LineLongError ==
  Line("m-error", NowHours - 2, "user",
       StringContent("The login build printed this.\nTypeError: payload is not iterable\n"
                     \o "  at decode\n\nThe payload was " \o Payload))

\* lines whose content is short
IngestLines ==
  {LineText, LineEmptyString, LineNoItems, LineBlank, MalformedLine, LineNumericCwd}

\* lines whose content is longer than every content limit
LongLines == {LineLongPlain, LineLongFunction, LineLongError}

\* the files read: up to MaxLines short lines, or a long line, alone or
\* after a short one
IngestFiles ==
  {[i \in 1..n |-> picks[i]] : n \in 1..MaxLines, picks \in [1..MaxLines -> IngestLines]}
    \cup {<<long>> : long \in LongLines}
    \cup {<<LineText, long>> : long \in LongLines}

IngestQueries == {"", "login build", "docker build"}

IngestInit ==
  /\ call \in {[fn |-> "parseJsonlFile", lines |-> lines,
                query |-> query, done |-> FALSE, out |-> <<>>] :
                 lines \in IngestFiles, query \in IngestQueries}
  /\ corpus = <<>>
  /\ disk = {}
  /\ cache = <<>>
  /\ req = NoRequest
  /\ resp = NoResponse
  /\ hist = NoHistory
  /\ sessions = <<>>

ApplyIngest ==
  /\ call.fn = "parseJsonlFile"
  /\ ~call.done
  /\ \E messages \in {parseJsonlFile(DirP1, "s1.jsonl", call.lines,
                                      Len(call.lines), call.query, "")} :
       /\ call' = [call EXCEPT !.done = TRUE, !.out = messages]
       /\ sessions' = sessionsAfter(sessions, messages)
  /\ UNCHANGED <<corpus, disk, cache, req, resp, hist>>

IngestNext == ApplyIngest

SpecIngest == IngestInit /\ [][IngestNext]_vars

Ingested == call.fn = "parseJsonlFile" /\ call.done

\* C20: every record the parser returns has a non-empty content: a line
\* whose content is empty after extraction yields no record, and no record
\* with an empty content string is returned.
C20_NoEmptyContent ==
  Ingested
    => /\ \A k \in 1..Len(call.out) : call.out[k].content # ""
       /\ \A i \in 1..Len(call.lines) :
            (call.lines[i].json = "ok" /\ extractContentFromMessage(call.lines[i].message) = "")
              => \A k \in 1..Len(call.out) : call.out[k].origin[3] # i

\* what extractMostValuableContent returns fits the limit, so the content
\* type strategies of smartContentPreservation are not reached
ValuableContentFits ==
  \A i \in 1..Len(call.lines) :
    call.lines[i].json = "ok" =>
    \E content \in {extractContentFromMessage(call.lines[i].message)} :
      \E maxLength \in {getContentLimit(content)} :
        Len(content) > maxLength => Len(extractMostValuableContent(content, maxLength)) <= maxLength
-----------------------------------------------------------------------------
(* Lines that fail during ingestion                                        *)

\* the line decodes, passes extraction with a content, and its scoring
\* does not throw
WellFormed(line, query) ==
  /\ line.json # "malformed"
  /\ extractContentFromMessage(line.message) # ""
  /\ ~lineThrows(DirP1, line, query, "")

IngestedLine(i) == \E k \in 1..Len(call.out) : call.out[k].origin[3] = i

\* C21: a line that fails to decode, or whose record fails while being
\* scored, is skipped: it yields no record, every well-formed line of the
\* same file, before and after it, yields its record, and the records are
\* in the order of their lines.
C21_FailingLineIsSkipped ==
  Ingested
    => /\ \A i \in 1..Len(call.lines) :
            IF lineThrows(DirP1, call.lines[i], call.query, "")
            THEN ~IngestedLine(i)
            ELSE WellFormed(call.lines[i], call.query) => IngestedLine(i)
       /\ \A k \in 1..(Len(call.out) - 1) : call.out[k].origin[3] < call.out[k + 1].origin[3]

\* a file whose second line fails during scoring, or does not decode,
\* between two well-formed lines that were both ingested
C21_Witness ==
  /\ Ingested
  /\ Len(call.lines) = 3
  /\ lineThrows(DirP1, call.lines[2], call.query, "")
  /\ WellFormed(call.lines[1], call.query) /\ WellFormed(call.lines[3], call.query)
  /\ IngestedLine(1) /\ IngestedLine(3)
  /\ Len(call.out) = 2
-----------------------------------------------------------------------------
(* Error solutions: the tests of getErrorSolutions                         *)

\* the characters that . of a regular expression does not match
LineBreaks == {"\n", "\r"}

\* one of the words stands in s at i
anyAt(s, i, words) == \E w \in words : startsAt(s, i, w)

\* /(?:first|...).*(?:second|...)/ : a first word and, later on the same
\* line, a second one
thenOnLine(lower, firsts, seconds) ==
  \E i \in 1..Len(lower) :
    \E a \in firsts :
      /\ startsAt(lower, i, a)
      /\ \E j \in (i + Len(a))..Len(lower) :
           /\ anyAt(lower, j, seconds)
           /\ \A n \in (i + Len(a))..(j - 1) : Char(lower, n) \notin LineBreaks

\* /word\s+word.../ matched at i: the position of its last character, -1
\* when it does not match there
phraseEnd(s, i, words) ==
  LET E[k \in 0..Len(words)] ==
        IF k = 0 THEN i - 1
        ELSE CHOOSE out \in
               {IF prev < 0 \/ (k > 1 /\ from = prev + 1) \/ ~startsAt(s, from, words[k])
                THEN -1
                ELSE from + Len(words[k]) - 1 :
                  prev \in {E[k - 1]},
                  from \in {IF k = 1 THEN i
                            ELSE IF E[k - 1] < 0 THEN 0
                            ELSE runEnd(s, E[k - 1] + 1, Whitespace) + 1}} : TRUE
  IN E[Len(words)]

\* /at\s+\w+\s+\([^)]+:\d+:\d+\)/
hasParenthesisedFrame(content) ==
  \E i \in 1..Len(content) :
    /\ startsAt(content, i, "at")
    /\ \E w \in {runEnd(content, i + 2, Whitespace) + 1} :
         /\ w > i + 2
         /\ IsWordAt(content, w)
         /\ \E p \in {runEnd(content, runEnd(content, w, WordCharSet) + 1, Whitespace) + 1} :
              /\ p > runEnd(content, w, WordCharSet) + 1
              /\ startsAt(content, p, "(")
              /\ \E closes \in {{q \in (p + 1)..Len(content) : Char(content, q) = ")"}} :
                   /\ closes # {}
                   /\ \E q \in {First(closes)} :
                        \E j \in colonDigitsAt(content) :
                          /\ j > p + 1
                          /\ \E k \in {runEnd(content, j + 1, CharsOf(Digits)) + 1} :
                               runEnd(content, k + 1, CharsOf(Digits)) = q - 1

\* isActualError: one of the errorIndicators matches
isActualError(content) ==
  \E lower \in {toLowerCase(content)} :
    \/ \E i \in 1..Len(lower) :
         \/ startsAt(lower, i, "error") /\ anyAt(lower, i + 5, Whitespace \cup {":"})
         \/ startsAt(lower, i, "exception") /\ anyAt(lower, i + 9, Whitespace \cup {":"})
         \/ startsAt(lower, i, "error") /\ IsWordAt(lower, i - 1)
         \/ startsAt(lower, i, "cannot") /\ anyAt(lower, i + 6, Whitespace)
         \/ phraseEnd(lower, i, <<"undefined", "is", "not">>) > 0
         \/ phraseEnd(lower, i, <<"not", "found">>) > 0
    \/ includes(lower, "failed")
    \/ includes(lower, "invalid")
    \/ includes(lower, "stack trace")
    \/ hasParenthesisedFrame(content)

\* isMetaErrorContent: one of the metaIndicators matches; the status emojis
\* are characters that no text of this model holds
isMetaErrorContent(content) ==
  \E lower \in {toLowerCase(content)} :
    \/ \E j \in 1..Len(lower) :
         /\ Char(lower, j) = "/"
         /\ IsDigitAt(lower, j - 1)
         /\ IsDigitAt(lower, j + 1)
         /\ \E m \in (j + 2)..Len(lower) :
              /\ anyAt(lower, m, {"pass", "fail", "queries", "results"})
              /\ \A n \in (j + 2)..(m - 1) : Char(lower, n) \notin LineBreaks
    \/ thenOnLine(lower, {"test", "benchmark", "verify"}, {"error", "solution"})
    \/ thenOnLine(lower, {"plan", "design", "implement"}, {"error handling", "solution"})
    \/ \E i \in 1..Len(lower) :
         \E e \in {phraseEnd(lower, i, <<"root", "cause">>)} :
           /\ e > 0
           /\ \E m \in (e + 1)..Len(lower) :
                /\ Char(lower, m) = ":"
                /\ \A n \in (e + 1)..(m - 1) : Char(lower, n) \notin LineBreaks
    \/ \E i \in 1..Len(lower) :
         /\ Char(lower, i) = "|"
         /\ anyAt(lower, runEnd(lower, i + 1, Whitespace) + 1, {"tool", "status", "issue"})

\* s without the characters of the set
without(s, set) ==
  CHOOSE out \in
    {concat([i \in 1..Len(v) |-> IF Char(v, i) \in set THEN "" ELSE Char(v, i)]) :
       v \in {s}} : TRUE

specificErrorCodes ==
  {"enoent", "eacces", "etimedout", "econnrefused", "eperm", "eexist", "enotdir", "eisdir",
   "eaddrinuse", "econnreset", "ehostunreach", "typeerror", "referenceerror", "syntaxerror",
   "rangeerror", "urierror"}

\* the error phrases of hasErrorInContent, each with its first word; the
\* one-word test of the source holds for all of them
knownErrorPhrases ==
  {<<"connection", "connection refused">>, <<"permission", "permission denied">>,
   <<"no", "no such file">>, <<"not", "not found">>, <<"module", "module not found">>,
   <<"command", "command not found">>, <<"cannot", "cannot read">>,
   <<"cannot", "cannot find">>, <<"is", "is not a function">>, <<"is", "is not defined">>,
   <<"undefined", "undefined is not">>, <<"null", "null is not">>,
   <<"build", "build failed">>, <<"compile", "compile error">>, <<"test", "test failed">>,
   <<"npm", "npm err">>, <<"yarn", "yarn error">>, <<"exit", "exit code">>,
   <<"stack", "stack trace">>, <<"uncaught", "uncaught exception">>,
   <<"unhandled", "unhandled rejection">>}

\* SearchHelpers.hasErrorInContent
hasErrorInContent(content, errorPattern) ==
  \E lowerContent \in {toLowerCase(content)} :
    \E lowerPattern \in {trim(without(toLowerCase(errorPattern), {"!", "?", ".", ":"}))} :
      IF includes(lowerContent, lowerPattern) THEN TRUE
      ELSE IF \E code \in specificErrorCodes : includes(lowerPattern, code)
      THEN \E code \in specificErrorCodes :
             includes(lowerPattern, code) /\ includes(lowerContent, code)
      ELSE \E patternWords \in
                {SelectSeq(split(lowerPattern, Whitespace \cup {":", "_", "-"}),
                           LAMBDA w : Len(w) > 2)} :
             /\ Len(patternWords) > 0
             /\ \/ \E phrase \in knownErrorPhrases :
                     includes(lowerPattern, phrase[1]) /\ includes(lowerContent, phrase[2])
                \/ Len(SelectSeq(patternWords, LAMBDA w : includes(lowerContent, w)))
                     >= Min(2, Len(patternWords))

\* lowerPattern.match(/(typeerror|syntaxerror|referenceerror|rangeerror|error)/)?.[0]:
\* "" when there is no match
errorTypeOf(lowerPattern) ==
  LET types == {"typeerror", "syntaxerror", "referenceerror", "rangeerror", "error"}
      at(v) == {i \in 1..Len(v) : anyAt(v, i, types)}
  IN CHOOSE out \in
       {IF starts = {} THEN ""
        ELSE CHOOSE t \in types : startsAt(lowerPattern, First(starts), t) :
          starts \in {at(lowerPattern)}} : TRUE

\* current.context?.errorPatterns?.some(...)
hasMatchingError(current, errorPattern) ==
  \E lowerPattern \in {toLowerCase(errorPattern)} :
    \E patternWords \in {SelectSeq(split(lowerPattern, Whitespace), LAMBDA w : Len(w) > 2)},
       errorType \in {errorTypeOf(lowerPattern)} :
      \E n \in 1..Len(current.context.errorPatterns) :
        \E lowerErr \in {toLowerCase(current.context.errorPatterns[n])} :
          /\ errorType = "" \/ includes(lowerErr, errorType)
          /\ \/ includes(lowerErr, lowerPattern)
             \/ Len(SelectSeq(patternWords, LAMBDA w : includes(lowerErr, w)))
                  >= Min(3, Len(patternWords))

\* the test under which a record counts as an occurrence of the error
acceptedError(current, errorPattern) ==
  /\ hasMatchingError(current, errorPattern)
       \/ hasErrorInContent(current.content, errorPattern)
  /\ isActualError(current.content)
  /\ ~isMetaErrorContent(current.content)

\* matchedError: the first error text that holds the pattern, else the
\* first error text, else the pattern
errorKeyOf(current, errorPattern) ==
  LET errors == current.context.errorPatterns
      holding == {n \in 1..Len(errors) :
                    includes(toLowerCase(errors[n]), toLowerCase(errorPattern))}
  IN IF holding # {} /\ errors[First(holding)] # "" THEN errors[First(holding)]
     ELSE IF Len(errors) > 0 /\ errors[1] # "" THEN errors[1]
     ELSE errorPattern

\* messages.slice(i, i + 8).filter(...), i counted from 1
solutionMessages(messages, i) ==
  SelectSeq(SubSeq(messages, i, Min(i + 7, Len(messages))),
            LAMBDA msg : \/ msg.type = "assistant"
                         \/ msg.type = "tool_result"
                         \/ msg.type = "user" /\ Len(msg.content) < 200)

\* a Map<string, CompactMessage[]> in insertion order: map.get(key).push(...msgs),
\* after map.set(key, []) when the key is new
pushTo(map, key, msgs) ==
  IF \E n \in 1..Len(map) : map[n].pattern = key
  THEN [n \in 1..Len(map) |->
          IF map[n].pattern = key THEN [map[n] EXCEPT !.msgs = @ \o msgs] ELSE map[n]]
  ELSE Append(map, [pattern |-> key, msgs |-> msgs])

\* the callback of one parsed file: its loop over messages[0 .. length - 2]
collectErrors(projectErrorMap, messages, errorPattern) ==
  LET M[i \in 0..Max(Len(messages) - 1, 0)] ==
        IF i = 0 THEN projectErrorMap
        ELSE CHOOSE out \in
               {IF acceptedError(messages[i], errorPattern)
                THEN pushTo(prev, errorKeyOf(messages[i], errorPattern),
                            solutionMessages(messages, i))
                ELSE prev : prev \in {M[i - 1]}} : TRUE
  IN M[Max(Len(messages) - 1, 0)]

\* the aggregation of the project maps, in the order of the projects
aggregateErrorMaps(projectMaps) ==
  LET A[n \in 0..Len(projectMaps)] ==
        IF n = 0 THEN <<>>
        ELSE LET B[k \in 0..Len(projectMaps[n])] ==
                   IF k = 0 THEN A[n - 1]
                   ELSE pushTo(B[k - 1], projectMaps[n][k].pattern, projectMaps[n][k].msgs)
             IN B[Len(projectMaps[n])]
  IN A[Len(projectMaps)]

\* SearchHelpers.extractSolutionContext
extractSolutionContext(messages) ==
  slice(join([n \in 1..Len(messages) |-> messages[n].content], " "), 1, 200) \o "..."

\* solutions.sort((a, b) => b.frequency - a.frequency): a stable sort
sortByFrequency(solutions) ==
  LET rank(n) ==
        Cardinality({m \in 1..Len(solutions) :
                       \/ solutions[m].frequency > solutions[n].frequency
                       \/ solutions[m].frequency = solutions[n].frequency /\ m < n}) + 1
  IN [r \in 1..Len(solutions) |-> solutions[CHOOSE n \in 1..Len(solutions) : rank(n) = r]]

\* the conversion of the error map to ErrorSolution values, sorted and cut
toErrorSolutions(errorMap, limit) ==
  LET quality(msgs) ==
        SelectSeq(msgs, LAMBDA msg : /\ msg.type = "assistant"
                                     /\ ~isLowValueContent(msg.content)
                                     /\ Len(msg.content) >= 20)
      solutionOf(entry) ==
        CHOOSE out \in
          {[errorPattern |-> entry.pattern,
            solution |-> SubSeq(q, 1, Min(5, Len(q))),
            context |-> extractSolutionContext(q),
            frequency |-> Len(entry.msgs)] : q \in {quality(entry.msgs)}} : TRUE
      kept == SelectSeq(errorMap, LAMBDA entry : Len(quality(entry.msgs)) > 0)
      sorted == sortByFrequency([n \in 1..Len(kept) |-> solutionOf(kept[n])])
  IN SubSeq(sorted, 1, Min(limit, Len(sorted)))
-----------------------------------------------------------------------------
(* getErrorSolutions over concurrently parsed files                         *)

LineErrorUser ==
  Line("e-user", NowHours - 9, "user", StringContent("TypeError: payload is not iterable"))

LineFixLoop ==
  Line("fix-loop", NowHours - 8, "assistant",
       StringContent("Convert the payload with Array.from before the loop runs"))

LineThanks == Line("thanks", NowHours - 7, "user", StringContent("thanks"))

LineErrorAssistant ==
  Line("e-assistant", NowHours - 6, "assistant",
       StringContent("TypeError: payload is not iterable"))

LineFixDecoder ==
  Line("fix-decoder", NowHours - 5, "assistant",
       StringContent("The decoder checks the payload type first and the build is green"))

LineErrorRefused ==
  Line("e-refused", NowHours - 4, "user",
       StringContent("Error: connection refused by db.local"))

LineFixDatabase ==
  Line("fix-database", NowHours - 3, "assistant",
       StringContent("Start the database container and retry the connection to it"))

\* the session files a project may hold
SolutionFiles ==
  {[file |-> "a.jsonl", lines |-> <<LineErrorUser, LineFixLoop, LineThanks>>],
   [file |-> "b.jsonl", lines |-> <<LineErrorAssistant, LineFixDecoder>>],
   [file |-> "c.jsonl", lines |-> <<LineErrorRefused, LineFixDatabase, LineThanks>>],
   [file |-> "d.jsonl", lines |-> <<LineFixLoop, LineErrorUser>>]}

\* one project with one or two of the files, most recently modified first,
\* and a second project with one file
SolutionCorpora ==
  {<< [dir |-> DirP1, files |-> files],
      [dir |-> DirP2, files |-> << [file |-> "e.jsonl",
                                    lines |-> <<LineErrorRefused, LineFixDatabase>>] >>] >> :
     files \in {<<f>> : f \in SolutionFiles}
                 \cup {pair \in SolutionFiles \X SolutionFiles : pair[1] # pair[2]}}

\* the calls a caller makes: <<errorPattern, limit>>
SolutionRequests ==
  {<<"TypeError", 10>>, <<"TypeError", 1>>, <<"connection refused", 10>>}

\* calls of getErrorSolutions in one behaviour
MaxSolutionCalls == 1

SolutionsInit ==
  /\ call = [fn |-> "getErrorSolutions", calls |-> 0]
  /\ corpus \in SolutionCorpora
  /\ disk = {}
  /\ cache = <<>>
  /\ req = NoRequest
  /\ resp = NoResponse
  /\ hist = NoHistory
  /\ sessions = <<>>

\* limitedDirs and, for each, limitedFiles
solutionTargets(corpusV, diskV) ==
  LET limitedDirs ==
        SubSeq(findProjectDirectories(corpusV, diskV), 1,
               Min(12, Len(findProjectDirectories(corpusV, diskV))))
  IN [p \in 1..Len(limitedDirs) |->
        [dir |-> limitedDirs[p],
         files |-> SubSeq(findJsonlFiles(corpusV, diskV, limitedDirs[p]), 1,
                          Min(6, Len(findJsonlFiles(corpusV, diskV, limitedDirs[p]))))]]

\* what this.parser.parseJsonlFile(projectDir, file) returns
parsedForSolutions(corpusV, diskV, dir, file) ==
  parseJsonlFile(dir, file, linesOf(corpusV, dir, file),
                 deliveredLines(corpusV, diskV, dir, file), "", "")

\* getErrorSolutions up to the fan-out over the projects and their files
ReceiveErrorSolutions(errorPattern, limit) ==
  /\ call.fn = "getErrorSolutions"
  /\ call.calls < MaxSolutionCalls
  /\ req.pc = "idle"
  /\ \E targets \in {solutionTargets(corpus, disk)} :
       req' = [pc |-> "solutions", errorPattern |-> errorPattern, limit |-> limit,
               targets |-> targets,
               pending |-> {<<p, f>> : p \in 1..Len(targets), f \in 1..2}
                             \cap UNION {{<<p, f>> : f \in 1..Len(targets[p].files)} :
                                           p \in 1..Len(targets)},
               maps |-> [p \in 1..Len(targets) |-> <<>>]]
  /\ call' = [call EXCEPT !.calls = @ + 1]
  /\ resp' = NoResponse
  /\ UNCHANGED <<corpus, disk, cache, hist, sessions>>

\* the parse of one file settles and its callback runs over the messages
FileParsed(p, f) ==
  /\ req.pc = "solutions"
  /\ <<p, f>> \in req.pending
  /\ \E messages \in {parsedForSolutions(corpus, disk, req.targets[p].dir,
                                         req.targets[p].files[f])} :
       /\ req' = [req EXCEPT !.pending = @ \ {<<p, f>>},
                             !.maps[p] = collectErrors(@, messages, req.errorPattern)]
       /\ sessions' = sessionsAfter(sessions, messages)
  /\ UNCHANGED <<call, corpus, disk, cache, resp, hist>>

\* every project has settled: aggregation, conversion, sort and cut
ReturnErrorSolutions ==
  /\ req.pc = "solutions"
  /\ req.pending = {}
  /\ resp' = [op |-> "getErrorSolutions", errorPattern |-> req.errorPattern,
              limit |-> req.limit,
              results |-> toErrorSolutions(aggregateErrorMaps(req.maps), req.limit)]
  /\ req' = NoRequest
  /\ UNCHANGED <<call, corpus, disk, cache, hist, sessions>>

SolutionsNext ==
  \/ \E request \in SolutionRequests : ReceiveErrorSolutions(request[1], request[2])
  \/ \E p \in 1..2, f \in 1..2 : FileParsed(p, f)
  \/ ReturnErrorSolutions

SpecSolutions == SolutionsInit /\ [][SolutionsNext]_vars

SolutionsReturned == req.pc = "idle" /\ resp.op = "getErrorSolutions"

\* getErrorSolutions when every file settles in the order of the listing
getErrorSolutions(corpusV, diskV, errorPattern, limit) ==
  LET targets == solutionTargets(corpusV, diskV)
      projectMap(p) ==
        LET M[f \in 0..Len(targets[p].files)] ==
              IF f = 0 THEN <<>>
              ELSE collectErrors(M[f - 1],
                                 parsedForSolutions(corpusV, diskV, targets[p].dir,
                                                    targets[p].files[f]),
                                 errorPattern)
        IN M[Len(targets[p].files)]
  IN toErrorSolutions(aggregateErrorMaps([p \in 1..Len(targets) |-> projectMap(p)]), limit)

\* C22: over a fixed corpus the list getErrorSolutions returns (the groups,
\* their order, the solution records and the frequency of each) is the same
\* for every order in which the files of a project settle: it is the list
\* returned when they settle in the order of the listing.
C22_SolutionsOrderIndependent ==
  SolutionsReturned
    => resp.results = getErrorSolutions(corpus, disk, resp.errorPattern, resp.limit)

\* the records the scan accepted as an occurrence of the error: where each
\* stands (project, file, position in the parsed file) and the key it got
Occurrences(corpusV, diskV, errorPattern) ==
  LET targets == solutionTargets(corpusV, diskV)
      parsed(p, f) ==
        parsedForSolutions(corpusV, diskV, targets[p].dir, targets[p].files[f])
      places == UNION {{<<p, f>> : f \in 1..Len(targets[p].files)} : p \in 1..Len(targets)}
      inFile(place) ==
        LET messages == parsed(place[1], place[2])
        IN {[place |-> place, at |-> i, messages |-> messages,
             key |-> errorKeyOf(messages[i], errorPattern)] :
              i \in {n \in 1..(Len(messages) - 1) :
                       acceptedError(messages[n], errorPattern)}}
  IN UNION {inFile(place) : place \in places}
-----------------------------------------------------------------------------
(* Claims about the groups getErrorSolutions returns                        *)

\* record is one of the lookahead records of an accepted occurrence of the
\* group: it stands in the same file, after it, at most 7 records later
FollowsOccurrence(record, group, occurrences) ==
  \E o \in occurrences :
    /\ o.key = group.errorPattern
    /\ \E j \in (o.at + 1)..Min(o.at + 7, Len(o.messages)) : o.messages[j] = record

\* C27: every record in the solution list of a returned group is written by
\* the assistant, has a content of at least 20 characters, and stands
\* strictly after an accepted occurrence of the group's error, at most 7
\* records later in the same file.
C27_SolutionsFollowTheError ==
  SolutionsReturned
    => \E occurrences \in {Occurrences(corpus, disk, resp.errorPattern)} :
         \A g \in 1..Len(resp.results) :
           \A s \in 1..Len(resp.results[g].solution) :
             LET record == resp.results[g].solution[s]
             IN /\ record.type = "assistant"
                /\ Len(record.content) >= 20
                /\ FollowsOccurrence(record, resp.results[g], occurrences)

\* the author and the length alone: this part of C27 holds
SolutionsAreAssistantAndLong ==
  SolutionsReturned
    => \A g \in 1..Len(resp.results) :
         \A s \in 1..Len(resp.results[g].solution) :
           /\ resp.results[g].solution[s].type = "assistant"
           /\ Len(resp.results[g].solution[s].content) >= 20

\* C28: the frequency of a returned group is the number of accepted
\* occurrences of its error in the scanned files, not the number of records
\* collected for it.
C28_FrequencyCountsOccurrences ==
  SolutionsReturned
    => \E occurrences \in {Occurrences(corpus, disk, resp.errorPattern)} :
         \A g \in 1..Len(resp.results) :
           resp.results[g].frequency
             = Cardinality({o \in occurrences : o.key = resp.results[g].errorPattern})
-----------------------------------------------------------------------------
(* Session aggregates                                                       *)

\* the times getRecentSessions reports for the session of one parsed file
recentSessionOf(messages) ==
  [start_time |-> messages[1].timestamp,
   end_time |-> messages[Len(messages)].timestamp,
   message_count |-> Len(messages)]

\* the timestamps of the records of a session among the parsed records
TimesOf(messages, sessionId) ==
  {messages[k].timestamp : k \in {n \in 1..Len(messages) : messages[n].sessionId = sessionId}}

Earliest(times) == CHOOSE t \in times : \A u \in times : t <= u

Latest(times) == CHOOSE t \in times : \A u \in times : t >= u

\* C29: in every session aggregate the engine builds (the entry that
\* updateSessionInfo keeps for a session and the entry getRecentSessions
\* reports for a file) the start time is the earliest and the end time the
\* latest timestamp of the session's records, whatever the order of the
\* records in the file. Stated for files of well-formed lines read without
\* a query.
C29_SessionSpansItsRecords ==
  (/\ Ingested /\ call.query = "" /\ call.out # <<>>
   /\ \A i \in 1..Len(call.lines) : call.lines[i].json = "ok")
    => /\ \A n \in 1..Len(sessions) :
            \E times \in {TimesOf(call.out, sessions[n].sessionId)} :
              /\ sessions[n].startTime = Earliest(times)
              /\ sessions[n].endTime = Latest(times)
       /\ \E times \in {{call.out[k].timestamp : k \in 1..Len(call.out)}} :
            /\ recentSessionOf(call.out).start_time = Earliest(times)
            /\ recentSessionOf(call.out).end_time = Latest(times)

\* the start time kept by updateSessionInfo is the earliest timestamp
SessionStartIsEarliest ==
  (Ingested /\ call.out # <<>>)
    => \A n \in 1..Len(sessions) :
         sessions[n].startTime = Earliest(TimesOf(call.out, sessions[n].sessionId))

\* C25: a query changes no state that outlives the request other than the
\* cache of parsed files: the session aggregates of the parser are as they
\* were at start-up, when the parser had read no file.
C25_OnlyTheCacheChanges == sessions = <<>>
-----------------------------------------------------------------------------
(* The majority-coverage bonus                                              *)

\* the query words that match the content, of whatever kind
matchedQueryWords(message, query) ==
  Len(SelectSeq(queryWordsOf(toLowerCase(query)),
                LAMBDA w : matchesTechTerm(extractContentFromMessage(message.message), w)))

\* the points of calculateRelevanceScore other than the coverage bonus
pointsBesideCoverage(message, query, projectPath) ==
  LET content == extractContentFromMessage(message.message)
      queryWords == queryWordsOf(toLowerCase(query))
      strictCoreTerms == strictCoreTermsOf(queryWords)
      supportingTerms == supportingTermsOf(queryWords)
      matches(words) == Len(SelectSeq(words, LAMBDA w : matchesTechTerm(content, w)))
  IN 10 * matches(strictCoreTerms)
     + 3 * matches(supportingTerms)
     + 2 * matches(SelectSeq(queryWords, LAMBDA w : /\ ~InSeq(w, strictCoreTerms)
                                                    /\ ~InSeq(w, supportingTerms)))
     + (IF includes(toLowerCase(content), toLowerCase(query)) THEN 5 ELSE 0)
     + (IF message.type \in {"tool_use", "tool_result"} THEN 5 ELSE 0)
     + (IF includes(content, "src/") \/ includes(content, ".ts") \/ includes(content, ".js")
        THEN 3 ELSE 0)
     + (IF projectPath # "" /\ message.cwd # "" /\ includes(message.cwd, projectPath)
        THEN 5 ELSE 0)

ScoreDone == call.fn = "calculateRelevanceScore" /\ call.done

\* the score was not cut to 0 by the strict-term veto
NotVetoed ==
  \E content \in {extractContentFromMessage(call.message.message)} :
    \E strictCoreTerms \in {strictCoreTermsOf(queryWordsOf(toLowerCase(call.query)))} :
      ~strictVeto(strictCoreTerms,
                  Len(SelectSeq(strictCoreTerms, LAMBDA t : matchesTechTerm(content, t))))

\* C26: unless the strict-term veto applies, the score holds the
\* majority-coverage bonus of 4 exactly when the query has words and the
\* number of its words that match the content, strict-core, supporting and
\* residual matches counted alike, is at least 60% of the number of its words.
C26_CoverageCountsEveryMatch ==
  (ScoreDone /\ NotVetoed)
    => \E n \in {Len(queryWordsOf(toLowerCase(call.query)))} :
         \E beside \in {pointsBesideCoverage(call.message, call.query, call.projectPath)} :
           IF n > 0 /\ matchedQueryWords(call.message, call.query) >= ceilSixTenths(n)
           THEN call.out = beside + 4
           ELSE call.out = beside

\* with the strict-core and residual matches alone the statement holds
CoverageCountsStrictAndResidual ==
  (ScoreDone /\ NotVetoed)
    => \E queryWords \in {queryWordsOf(toLowerCase(call.query))} :
         \E beside \in {pointsBesideCoverage(call.message, call.query, call.projectPath)} :
           \E content \in {extractContentFromMessage(call.message.message)} :
             IF /\ Len(queryWords) > 0
                /\ Len(SelectSeq(queryWords,
                                 LAMBDA w : /\ ~InSeq(w, supportingTermsOf(queryWords))
                                            /\ matchesTechTerm(content, w)))
                     >= ceilSixTenths(Len(queryWords))
             THEN call.out = beside + 4
             ELSE call.out = beside
-----------------------------------------------------------------------------
(* The cached lists                                                         *)

\* the tool calls of the record of the corpus, in the order it made them
ToolCalls == {<<"Read", "Bash">>, <<"Bash", "Read">>, <<"Write", "Edit", "Bash">>, <<"Read">>}

ToolsMessage(tools) ==
  ArrayContent(<<TextItem(ScenarioContent)>> \o [n \in 1..Len(tools) |-> ToolUseItem(tools[n])])

\* an engine just constructed over a corpus of one record with tool calls
ToolsInit ==
  /\ call = Idle
  /\ corpus \in {ScenarioCorpus(age, ToolsMessage(tools)) : age \in {2, 200},
                                                           tools \in ToolCalls}
  /\ disk = {}
  /\ cache = <<>>
  /\ req = NoRequest
  /\ resp = NoResponse
  /\ hist = NoHistory
  /\ sessions = <<>>

SpecTools == ToolsInit /\ [][ScenarioNext]_vars

\* C23: a list of parsed records that is stored in the cache is not
\* modified afterwards, neither the list nor a record of it (content, scores,
\* context collections and the order of their elements): at every step an
\* entry that stays in the cache keeps its value.
C23_CachedValuesAreImmutable ==
  [][\A e \in 1..Len(cache) : \A f \in 1..Len(cache') :
       cache[e].key = cache'[f].key => cache'[f].messages = cache[e].messages]_vars

KeysOf(cacheV) == {cacheV[k].key : k \in 1..Len(cacheV)}

\* C24: when a scan of a file completes and finds that a concurrent scan of
\* the same file has already stored its list, the cache it leaves is the
\* cache of a single write: the same keys as before (no further entry is
\* evicted), one entry for the file, and in it the list one of the two scans
\* parsed.
C24_RedundantWriteIsSingleWrite ==
  [][(/\ req.pc = "cache"
      /\ Len(req'.parsing) < Len(req.parsing)
      /\ cacheHas(cache, hist'.key))
       => /\ KeysOf(cache') = KeysOf(cache)
          /\ Cardinality({k \in 1..Len(cache') : cache'[k].key = hist'.key}) = 1
          /\ cacheGet(cache', hist'.key) \in {cacheGet(cache, hist'.key), hist'.messages}]_vars
-----------------------------------------------------------------------------
(* The early stop of the candidate gathering                                *)

DirP3 == "-home-u-p3"

\* what the one session file of a project may hold
GatherFiles == {<<LineDocker>>, <<LineToken>>, <<LineHooks>>}

\* three projects, most recently modified first, one session file each
GatherCorpora ==
  {<< [dir |-> DirP1, files |-> << [file |-> "s1.jsonl", lines |-> f1] >>],
      [dir |-> DirP2, files |-> << [file |-> "s2.jsonl", lines |-> f2] >>],
      [dir |-> DirP3, files |-> << [file |-> "s3.jsonl", lines |-> f3] >>] >> :
     f1 \in GatherFiles, f2 \in GatherFiles, f3 \in GatherFiles}

\* <<query, limit>>
GatherRequests == {<<"docker auth", 1>>, <<"docker auth", DefaultLimit>>}

GatherInit ==
  /\ call = Idle
  /\ corpus \in GatherCorpora
  /\ disk = {}
  /\ cache = <<>>
  /\ req = NoRequest
  /\ resp = NoResponse
  /\ hist = NoHistory
  /\ sessions = <<>>

GatherNext ==
  \/ \E request \in GatherRequests : StartSearch(request[1], "", "", request[2])
  \/ \E t \in 1..3 : ListFiles(t)
  \/ \E t \in 1..3 : ScanFile(t)
  \/ FinishSearch

SpecGather == GatherInit /\ [][GatherNext]_vars

\* the candidates the project tasks have gathered so far: their records
\* that pass the filter of the aggregation
RunningCandidates ==
  LET analysis == analyzeQueryIntent(req.query)
      R[t \in 0..Len(req.tasks)] ==
        IF t = 0 THEN 0
        ELSE R[t - 1] + Len(SelectSeq(req.tasks[t].messages,
                                      LAMBDA m : isHighlyRelevant(m, req.query, analysis)))
  IN R[Len(req.tasks)]

\* C30: once the number of candidates gathered reaches the target (twice
\* the limit), the gathering stops: from then on no project task lists its
\* files or scans a file, and no record is added to what the tasks hold.
C30_GatheringStopsAtTarget ==
  [][(req.pc = "gather" /\ RunningCandidates >= req.limit * 2 /\ req'.pc = "gather")
       => req'.tasks = req.tasks]_vars

\* inside one project task the stop is observed: a task that holds its
\* share of the target scans no further file
TaskStopsAtItsShare ==
  req.pc = "gather"
    => \A t \in 1..Len(req.tasks) :
         Len(req.tasks[t].messages) >= targetPerProjectOf(req.limit, Len(req.tasks))
           => req.tasks[t].pc = "done"
-----------------------------------------------------------------------------
====
